---------------------------- MODULE Spec2Model ----------------------------
(***************************************************************************)
(* Email ingestion and quote orchestration of kcaiagent/email-quote-system *)
(* (src/app/services): the IMAP poller, the per-email orchestrator, the    *)
(* pricing service and its formula evaluator.                              *)
(*                                                                         *)
(* Conventions.                                                            *)
(*   - Money is an integer number of 1e-4 dollars ("pips"): 0.05 $ = 500,  *)
(*     50.00 $ = 500000.  Dimensions are whole inches.                     *)
(*   - Message ids are integers; 0 stands for None / a missing header.     *)
(*   - A formula is a sequence of tokens; whitespace separates tokens,     *)
(*     except that "(" may follow a name without whitespace.               *)
(***************************************************************************)
EXTENDS Integers, Sequences, FiniteSets, TLC

(***************************************************************************)
(* Bounds of the model.                                                    *)
(***************************************************************************)
MaxPolls == 2
\* Collaborator failures (IMAP connect or store, SMTP, PDF renderer) per run.
MaxFaults == 1
\* scheduler firings and HTTP requests per run
MaxEvents == 2
\* the clock stops at this minute
MaxClock == 11
\* access tokens the identity provider issues at most
MaxTokens == 4
\* minutes an access token lives
TokenLifetime == 10

(***************************************************************************)
(* Program constants (src/app/config.py, src/app/models.py).               *)
(***************************************************************************)
BASE_PRICE_PER_SQ_IN == 500
MIN_ORDER_AMOUNT == 500000
DEFAULT_MIN_SIZE_SQ_IN == 100
DEFAULT_MAX_SIZE_SQ_IN == 10000
DUPLICATE_CONFIDENCE_TENTHS == 7
\* get_valid_access_token: timedelta(minutes=5)
REFRESH_MARGIN == 5

(***************************************************************************)
(* Formula tokens.                                                         *)
(***************************************************************************)
Num(n) == [k |-> "num", s |-> "", n |-> n]
Name(s) == [k |-> "name", s |-> s, n |-> 0]
Op(s) == [k |-> "op", s |-> s, n |-> 0]

IsNum(t) == t.k = "num"
IsName(t, s) == t.k = "name" /\ t.s = s
IsOp(t, s) == t.k = "op" /\ t.s = s

SubSeqFrom(toks, i) == SubSeq(toks, i, Len(toks))

\* Results of an evaluation: a value, or a raised exception with its kind.
Val(v) == [ok |-> TRUE, v |-> v, err |-> ""]
Raise(kind) == [ok |-> FALSE, v |-> 0, err |-> kind]


(***************************************************************************)
(* The expression interpreter behind eval(expression, safe_context, {})    *)
(* for the arithmetic / comparison / ternary fragment.  A parse result is  *)
(* [syn, pos, err, v]: the syntax is fine up to pos; err is the exception  *)
(* the evaluation would raise ("" for none); v its value.  As in Python, a *)
(* syntax error wins over any run-time error, and only the chosen branch   *)
(* of a ternary is evaluated.  "/" is integer division here.               *)
(***************************************************************************)
PSyn == [syn |-> FALSE, pos |-> 0, err |-> "SyntaxError", v |-> 0]
POk(pos, err, v) == [syn |-> TRUE, pos |-> pos, err |-> err, v |-> v]

FirstErr(a, b) == IF a # "" THEN a ELSE b

ApplyOp(o, l, r) ==
    IF o = "+" THEN l + r
    ELSE IF o = "-" THEN l - r
    ELSE IF o = "*" THEN l * r
    ELSE IF o = "/" THEN (IF r = 0 THEN 0 ELSE l \div r)
    ELSE IF o = ">" THEN (IF l > r THEN 1 ELSE 0)
    ELSE IF o = "<" THEN (IF l < r THEN 1 ELSE 0)
    ELSE 0

OpErr(o, r) == IF o = "/" /\ r = 0 THEN "ZeroDivisionError" ELSE ""

RECURSIVE ParseTernary(_, _)
RECURSIVE ParseTermRest(_, _, _)
RECURSIVE ParseArithRest(_, _, _)

\* r: the expression parsed after "("; a call f(...) of an unknown name
\* raises NameError before its argument is evaluated
CloseParen(toks, r, isCall) ==
    IF r.syn /\ r.pos <= Len(toks) /\ IsOp(toks[r.pos], ")")
    THEN (IF isCall THEN POk(r.pos + 1, "NameError", 0)
          ELSE POk(r.pos + 1, r.err, r.v))
    ELSE PSyn

ParseAtom(toks, i) ==
    IF i > Len(toks) THEN PSyn
    ELSE IF IsNum(toks[i]) THEN POk(i + 1, "", toks[i].n)
    ELSE IF IsOp(toks[i], "(") THEN
        CloseParen(toks, ParseTernary(toks, i + 1), FALSE)
    ELSE IF toks[i].k = "name" /\ toks[i].s \notin {"if", "else", "import"} THEN
        \* a name left after substitution is not in safe_context
        IF i < Len(toks) /\ IsOp(toks[i + 1], "(")
        THEN CloseParen(toks, ParseTernary(toks, i + 2), TRUE)
        ELSE POk(i + 1, "NameError", 0)
    ELSE PSyn

\* acc (* or /) r, r the operand parsed after the operator at i
TermStep(toks, acc, i, r) ==
    IF ~r.syn THEN PSyn
    ELSE ParseTermRest(toks,
            POk(r.pos,
                FirstErr(acc.err, FirstErr(r.err, OpErr(toks[i].s, r.v))),
                ApplyOp(toks[i].s, acc.v, r.v)),
            r.pos)

ParseTermRest(toks, acc, i) ==
    IF i <= Len(toks) /\ (IsOp(toks[i], "*") \/ IsOp(toks[i], "/"))
    THEN TermStep(toks, acc, i, ParseAtom(toks, i + 1))
    ELSE acc

TermFrom(toks, a) == IF ~a.syn THEN PSyn ELSE ParseTermRest(toks, a, a.pos)

ParseTerm(toks, i) == TermFrom(toks, ParseAtom(toks, i))

\* acc (+ or -) r, r the term parsed after the operator at i
ArithStep(toks, acc, i, r) ==
    IF ~r.syn THEN PSyn
    ELSE ParseArithRest(toks,
            POk(r.pos, FirstErr(acc.err, r.err),
                ApplyOp(toks[i].s, acc.v, r.v)),
            r.pos)

ParseArithRest(toks, acc, i) ==
    IF i <= Len(toks) /\ (IsOp(toks[i], "+") \/ IsOp(toks[i], "-"))
    THEN ArithStep(toks, acc, i, ParseTerm(toks, i + 1))
    ELSE acc

ArithFrom(toks, a) == IF ~a.syn THEN PSyn ELSE ParseArithRest(toks, a, a.pos)

ParseArith(toks, i) == ArithFrom(toks, ParseTerm(toks, i))

\* a (> or <) b
CompareWith(toks, a, b) ==
    IF ~b.syn THEN PSyn
    ELSE POk(b.pos, FirstErr(a.err, b.err), ApplyOp(toks[a.pos].s, a.v, b.v))

CompareFrom(toks, a) ==
    IF ~a.syn THEN PSyn
    ELSE IF a.pos <= Len(toks)
            /\ (IsOp(toks[a.pos], ">") \/ IsOp(toks[a.pos], "<"))
    THEN CompareWith(toks, a, ParseArith(toks, a.pos + 1))
    ELSE a

ParseCompare(toks, i) == CompareFrom(toks, ParseArith(toks, i))

\* a if c else b: only the chosen branch is evaluated
TernaryElse(a, c, b) ==
    IF ~b.syn THEN PSyn
    ELSE IF c.err # "" THEN POk(b.pos, c.err, 0)
    ELSE IF c.v # 0 THEN POk(b.pos, a.err, a.v)
    ELSE POk(b.pos, b.err, b.v)

TernaryCond(toks, a, c) ==
    IF ~c.syn \/ c.pos > Len(toks) \/ ~IsName(toks[c.pos], "else") THEN PSyn
    ELSE TernaryElse(a, c, ParseTernary(toks, c.pos + 1))

TernaryFrom(toks, a) ==
    IF ~a.syn THEN PSyn
    ELSE IF a.pos <= Len(toks) /\ IsName(toks[a.pos], "if")
    THEN TernaryCond(toks, a, ParseCompare(toks, a.pos + 1))
    ELSE a

ParseTernary(toks, i) == TernaryFrom(toks, ParseCompare(toks, i))

\* the outcome of eval for the parse r of the whole expression
EvalResult(toks, r) ==
    IF ~r.syn \/ r.pos # Len(toks) + 1 THEN Raise("SyntaxError")
    ELSE IF r.err # "" THEN Raise(r.err)
    ELSE Val(r.v)

\* eval(expression, safe_context, {}): the value, or the exception raised.
PyEval(toks) == EvalResult(toks, ParseTernary(toks, 1))


(***************************************************************************)
(* PricingFormulaService (src/app/services/pricing_formula_service.py).    *)
(***************************************************************************)
\* re.sub(r'\b' + name + r'\b', str(value), expression) for every context key
Substitute(toks, ctx) ==
    [i \in 1..Len(toks) |->
        IF toks[i].k = "name" /\ toks[i].s \in DOMAIN ctx
        THEN Num(ctx[toks[i].s])
        ELSE toks[i]]

\* str.lower() / re.IGNORECASE on the words of the model's alphabet
Lower(s) ==
    CASE s = "IF" -> "if"
      [] s = "THEN" -> "then"
      [] s = "ELSE" -> "else"
      [] s = "EVAL" -> "eval"
      [] OTHER -> s

IsWordCI(t, w) == t.k = "name" /\ Lower(t.s) = w

\* names matched by r'__\w+__'
DunderNames == {"__class__", "__import__", "__builtins__"}
\* names matched by r'exec\s*\(', r'eval\s*\(', r'open\s*\(', r'file\s*\('
CallDenied == {"exec", "eval", "open", "file"}

\* dangerous_patterns, searched in the substituted expression
IsDangerous(toks) ==
    \E i \in 1..Len(toks) :
        /\ toks[i].k = "name"
        /\ \/ /\ Lower(toks[i].s) = "import"
              /\ i < Len(toks) /\ ~IsOp(toks[i + 1], "(")
           \/ Lower(toks[i].s) \in DunderNames
           \/ /\ Lower(toks[i].s) \in CallDenied
              /\ i < Len(toks) /\ IsOp(toks[i + 1], "(")

\* "if" in expression.lower()
ContainsIf(toks) == \E i \in 1..Len(toks) : IsWordCI(toks[i], "if")

\* positions of " word " (whitespace on both sides) in a stripped expression
Inner(toks, w) == {i \in 2..(Len(toks) - 1) : IsName(toks[i], w)}

Min(S) == CHOOSE x \in S : \A y \in S : x <= y

\* the (then, else) positions re.match(r'if\s+(.+?)\s+then\s+(.+?)\s+else\s+(.+)')
\* binds: the first "then" that an "else" can follow, then the first such "else"
ThenElse(toks) ==
    LET T == {t \in 3..Len(toks) :
                /\ IsWordCI(toks[t], "then")
                /\ \E e \in (t + 2)..(Len(toks) - 1) : IsWordCI(toks[e], "else")}
    IN IF Len(toks) = 0 \/ ~IsWordCI(toks[1], "if") \/ T = {} THEN <<0, 0>>
       ELSE LET t == Min(T) IN
            <<t, Min({e \in (t + 2)..(Len(toks) - 1) : IsWordCI(toks[e], "else")})>>

\* a result with the set of expressions that were handed to eval
WithEval(r, E) == [ok |-> r.ok, v |-> r.v, err |-> r.err, evald |-> E]
AlsoEvald(r, E) == WithEval(r, r.evald \cup E)

RECURSIVE safe_eval(_, _)
RECURSIVE eval_conditional(_, _)

\* lines 155-160, 172-177: the branch taken once the condition c is evaluated
CondBranch(c, tv, fv, ctx) ==
    IF ~c.ok THEN c
    ELSE AlsoEvald(safe_eval(IF c.v # 0 THEN tv ELSE fv, ctx), c.evald)

eval_conditional(e, ctx) ==
    LET ifs == Inner(e, "if")
        te == ThenElse(e)
        rest == IF ifs = {} THEN <<>> ELSE SubSeqFrom(e, Min(ifs) + 1)
        elses == Inner(rest, "else")
    IN
    IF ifs # {} /\ Inner(e, "else") # {} /\ elses # {} THEN
        \* value1 if condition else value2
        LET i == Min(ifs)
            j == Min(elses)
        IN CondBranch(safe_eval(SubSeq(rest, 1, j - 1), ctx),
                      SubSeq(e, 1, i - 1), SubSeqFrom(rest, j + 1), ctx)
    ELSE IF te[1] # 0 THEN
        \* if condition then value1 else value2
        CondBranch(safe_eval(SubSeq(e, 2, te[1] - 1), ctx),
                   SubSeq(e, te[1] + 1, te[2] - 1), SubSeqFrom(e, te[2] + 1), ctx)
    ELSE WithEval(Raise("ValueError: Could not parse conditional expression"), {})

\* lines 131-139: r is what eval(e) returned or raised
AfterEval(e, ctx, r) ==
    IF r.ok \/ ~ContainsIf(e) THEN WithEval(r, {e})
    ELSE AlsoEvald(eval_conditional(e, ctx), {e})

\* _safe_eval without the search for dangerous_patterns
EvalUnchecked(e, ctx) == AfterEval(e, ctx, PyEval(e))

\* lines 117-139: e is the expression after the substitution
CheckAndEval(e, ctx) ==
    IF IsDangerous(e)
    THEN WithEval(Raise("ValueError: Dangerous operation detected in formula"), {})
    ELSE AfterEval(e, ctx, PyEval(e))

safe_eval(expression, ctx) == CheckAndEval(Substitute(expression, ctx), ctx)

FormulaContext(area, base_price, rate, length, width) ==
    [n \in {"area", "base_price", "rate", "length", "width"} |->
        CASE n = "area" -> area
          [] n = "base_price" -> base_price
          [] n = "rate" -> rate
          [] n = "length" -> length
          [] OTHER -> width]

\* execute_formula without its fallback value: a failure prices at zero
OrZero(r, fallback) == IF r.ok THEN r.v ELSE 0

\* lines 49-56: the result, or the fallback when anything was raised
OrFallback(r, fallback) == IF r.ok THEN r.v ELSE fallback

execute_formula(formula, area, base_price, rate, length, width) ==
    IF formula = <<>> THEN area * rate
    ELSE OrFallback(safe_eval(formula,
                        FormulaContext(area, base_price, rate, length, width)),
                    area * rate)

\* the dummy context of validate_formula: area 100, base_price 0, rate 0.05
ValidateContext ==
    [n \in {"area", "base_price", "rate"} |->
        CASE n = "area" -> 100
          [] n = "base_price" -> 0
          [] OTHER -> 500]

Validity(r) == [valid |-> r.ok, error |-> r.err]

validate_formula(formula) ==
    IF formula = <<>> THEN [valid |-> FALSE, error |-> "Formula is empty"]
    ELSE Validity(safe_eval(formula, ValidateContext))


(***************************************************************************)
(* PricingService (src/app/services/pricing_service.py).                   *)
(***************************************************************************)
\* round(x / y, 4) of two pip amounts, to the nearest pip
RoundDiv(x, y) == (2 * x + y) \div (2 * y)
\* round(x, 2): to the nearest cent (100 pips)
RoundCents(x) == ((x + 50) \div 100) * 100

\* line 54: the unit price of a formula's total
WithUnitPrice(total_price, area_sq_inches) ==
    [total_price |-> total_price,
     unit_price |-> IF area_sq_inches > 0
                    THEN RoundDiv(total_price, area_sq_inches) ELSE 0]

\* lines 39-62: the total and the unit price before the minimum is applied
PriceBeforeMinimum(product, length_inches, width_inches) ==
    LET area_sq_inches == length_inches * width_inches IN
    IF product.pricing_formula # <<>> THEN
        LET base_price == IF product.price_per_sq_in > 0
                          THEN product.price_per_sq_in ELSE 0
            rate == IF product.price_per_sq_in > 0
                    THEN product.price_per_sq_in ELSE BASE_PRICE_PER_SQ_IN
        IN WithUnitPrice(execute_formula(product.pricing_formula,
                             area_sq_inches, base_price, rate,
                             length_inches, width_inches),
                         area_sq_inches)
    ELSE
        LET unit_price == IF product.price_per_sq_in # 0
                          THEN product.price_per_sq_in ELSE BASE_PRICE_PER_SQ_IN
        IN [total_price |-> area_sq_inches * unit_price,
            unit_price |-> unit_price]

\* lines 64-67: apply the minimum order amount
ApplyMinimum(total_price) ==
    IF total_price < MIN_ORDER_AMOUNT THEN MIN_ORDER_AMOUNT ELSE total_price

\* lines 64-74: the minimum applied to the total of p, and the rounding
Priced(p, area_sq_inches) ==
    [area_sq_inches |-> area_sq_inches,
     unit_price |-> p.unit_price,
     total_price |-> RoundCents(ApplyMinimum(p.total_price)),
     min_price |-> MIN_ORDER_AMOUNT]

calculate_price(product, length_inches, width_inches) ==
    Priced(PriceBeforeMinimum(product, length_inches, width_inches),
           length_inches * width_inches)

validate_dimensions(product, length_inches, width_inches) ==
    LET area == length_inches * width_inches IN
    IF area < product.min_size_sq_in THEN FALSE
    ELSE IF area > product.max_size_sq_in THEN FALSE
    ELSE TRUE


(***************************************************************************)
(* The store (src/app/models.py), the mailbox and the pollers.             *)
(***************************************************************************)
VARIABLES
    unseen,     \* sequence numbers of the mailbox messages flagged UNSEEN
    inbox,      \* committed EmailInbox rows
    customers,  \* committed Customer rows
    products,   \* committed Product rows
    quotes,     \* committed Quote rows
    responses,  \* committed EmailResponse rows
    sent,       \* messages handed to the SMTP server
    pc,         \* per poller: "idle", "loop" (between messages), "orch"
    batch,      \* per poller: the list fetch_unread_emails returned
    idx,        \* per poller: position in the batch
    pend,       \* per poller: rows added to its session and not committed
    raised,     \* per poller: the batch positions whose processing raised
    failed,     \* mailbox messages whose orchestration raised
    last,       \* the latest run of the orchestrator: its inputs and path
    now,        \* clock ticks; one per poll or call of the orchestrator
    faults      \* collaborator failures so far

pollVars == <<unseen, inbox, customers, products, quotes, responses, sent,
              pc, batch, idx, pend, raised, failed, last, now, faults>>

\* the triggers that call poll_business_emails: the scheduler job and the
\* manual poll endpoint
Pollers == {"job", "manual"}

\* the polled tenant
BUSINESS_ID == 1

\* What the external extraction (ai_service.extract_quote_info) may answer;
\* "" and NULL_DIM stand for null.
NULL_DIM == -1
Extraction(product_name, length_inches, width_inches, complete, missing) ==
    [product_name |-> product_name, length_inches |-> length_inches,
     width_inches |-> width_inches, has_complete_info |-> complete,
     missing_fields |-> missing]

\* The mailbox: by IMAP sequence number, the headers of each message and the
\* answers the extraction may give for its text.  hdr = 0: no Message-ID
\* header.  Message 1 is a new request; message 2 a colleague's reply in the
\* same thread, sent without a Message-ID.
Mail ==
    <<[hdr |-> 11, from_email |-> "alice", in_reply_to |-> 0, refs |-> <<>>,
       answers |-> {Extraction("felt rug", 48, 36, TRUE, {}),
                    Extraction("tabletop", 200, 100, TRUE, {})}],
      [hdr |-> 0, from_email |-> "bob", in_reply_to |-> 11, refs |-> <<11>>,
       answers |-> {Extraction("", 5, 5, TRUE, {"product_name"}),
                    Extraction("", NULL_DIM, NULL_DIM, FALSE,
                        {"product_name", "length_inches", "width_inches"}),
                    Extraction("felt rug", NULL_DIM, NULL_DIM, TRUE, {})}]>>

Seqs == DOMAIN Mail

\* f"imap_{business_id}_{msg_id}_{timestamp}": injective in its arguments
FallbackId(business_id, seq, ts) == 1000 * business_id + 100 * seq + ts

\* make_msgid(): a fresh id for every message composed, in its angle
\* brackets; the string "<id>" is written -id
NewMsgId == -(500 + Cardinality(sent) + 1)

\* imap_service.py 182, 188: strip("<>") on a header value
StripBrackets(v) == IF v < 0 THEN -v ELSE v

\* a derivation that looks at In-Reply-To before References
ReplyFirst(in_reply_to, refs) ==
    IF in_reply_to # 0 THEN in_reply_to
    ELSE IF refs # <<>> THEN refs[1]
    ELSE 0

\* imap_service.py 187-200: thread id from References, else In-Reply-To
ThreadId(in_reply_to, refs) ==
    IF refs # <<>> THEN refs[1]
    ELSE IF in_reply_to # 0 THEN in_reply_to
    ELSE 0

\* imap_service.py 162-241: one parsed message of the fetch
EmailData(seq, ts) ==
    [message_id |-> IF Mail[seq].hdr # 0 THEN Mail[seq].hdr
                    ELSE FallbackId(BUSINESS_ID, seq, ts),
     raw_message_id |-> seq,
     from_email |-> Mail[seq].from_email,
     in_reply_to |-> Mail[seq].in_reply_to,
     thread_id |-> ThreadId(Mail[seq].in_reply_to, Mail[seq].refs)]

RECURSIVE SeqOfSet(_)
\* the elements of a set of numbers in increasing order
SeqOfSet(S) ==
    IF S = {} THEN <<>>
    ELSE LET m == Min(S) IN <<m>> \o SeqOfSet(S \ {m})

\* fetch_unread_emails: the UNSEEN messages in mailbox order
fetch_unread_emails(ts) ==
    LET order == SeqOfSet(unseen) IN
    [i \in 1..Len(order) |-> EmailData(order[i], ts)]

\* The catalogue of the tenant at start.
InitialProducts ==
    {[name |-> "felt rug", price_per_sq_in |-> 500,
      pricing_formula |-> <<Name("base_price"), Op("+"), Op("("),
                            Name("area"), Op("*"), Name("rate"), Op(")")>>,
      min_size_sq_in |-> DEFAULT_MIN_SIZE_SQ_IN,
      max_size_sq_in |-> DEFAULT_MAX_SIZE_SQ_IN],
     [name |-> "tabletop", price_per_sq_in |-> 500,
      pricing_formula |-> <<Name("area"), Op("*"), Name("rate"), Op("/"), Num(0)>>,
      min_size_sq_in |-> DEFAULT_MIN_SIZE_SQ_IN,
      max_size_sq_in |-> DEFAULT_MAX_SIZE_SQ_IN]}

\* What the external classifier may answer (ai_service.detect_email_intent);
\* confidence in tenths.
IntentResults ==
    {[intent |-> "duplicate", confidence |-> 8],
     [intent |-> "duplicate", confidence |-> 7],
     [intent |-> "new_request", confidence |-> 8]}

NoRun ==
    [message_id |-> 0, existing_reply |-> FALSE, intent |-> "", confidence |-> 0,
     extracted |-> FALSE, has_complete_info |-> FALSE, missing_fields |-> {},
     length_inches |-> NULL_DIM, width_inches |-> NULL_DIM,
     product |-> "", path |-> "", send_called |-> FALSE]

InitPoll ==
    /\ unseen = Seqs
    /\ inbox = {}
    /\ customers = {}
    /\ products = InitialProducts
    /\ quotes = {}
    /\ responses = {}
    /\ sent = {}
    /\ pc = [p \in Pollers |-> "idle"]
    /\ batch = [p \in Pollers |-> <<>>]
    /\ idx = [p \in Pollers |-> 1]
    /\ pend = [p \in Pollers |-> {}]
    /\ raised = [p \in Pollers |-> {}]
    /\ failed = {}
    /\ last = NoRun
    /\ now = 0
    /\ faults = 0

\* the outcomes a collaborator's call may have: TRUE, it succeeds
Outcomes == IF faults < MaxFaults THEN BOOLEAN ELSE {TRUE}
Fault(ok) == faults' = IF ok THEN faults ELSE faults + 1


(***************************************************************************)
(* poll_business_emails (src/app/services/scheduler_service.py).           *)
(***************************************************************************)
\* lines 38-42: the connection cannot be opened; the tick ends
PollConnectFail(p) ==
    /\ pc[p] = "idle"
    /\ now < MaxPolls
    /\ FALSE \in Outcomes
    /\ Fault(FALSE)
    /\ now' = now + 1
    /\ UNCHANGED <<unseen, inbox, customers, products, quotes, responses, sent,
                   pc, batch, idx, pend, raised, failed, last>>

\* lines 38-63: connect and fetch the unread messages
PollStart(p) ==
    /\ pc[p] = "idle"
    /\ now < MaxPolls
    /\ now' = now + 1
    /\ batch' = [batch EXCEPT ![p] = fetch_unread_emails(now')]
    /\ idx' = [idx EXCEPT ![p] = 1]
    /\ raised' = [raised EXCEPT ![p] = {}]
    /\ pc' = [pc EXCEPT ![p] = "loop"]
    /\ UNCHANGED <<unseen, inbox, customers, products, quotes, responses, sent,
                   pend, failed, last, faults>>

InLoop(p) == pc[p] = "loop" /\ idx[p] <= Len(batch[p])
\* a loop that takes the batch from its end
LastFirst(p) == batch[p][Len(batch[p]) + 1 - idx[p]]
\* line 66: for email_data in emails
Current(p) == batch[p][idx[p]]

\* lines 69-71: the row with this message id the session can see
Existing(message_id) == \E r \in inbox : r.message_id = message_id

\* the unique index on email_inbox.message_id against another session's
\* uncommitted insert
InsertConflict(p, message_id) ==
    \E q \in Pollers \ {p} : \E r \in pend[q] : r.message_id = message_id

\* lines 73-75: already on file, skip
PollSkipExisting(p) ==
    /\ InLoop(p)
    /\ Existing(Current(p).message_id)
    /\ idx' = [idx EXCEPT ![p] = @ + 1]
    /\ UNCHANGED <<unseen, inbox, customers, products, quotes, responses, sent,
                   pc, batch, pend, raised, failed, last, now, faults>>

\* lines 119-120, 132-135: the insert raises, the message is given up
PollInsertRaises(p) ==
    /\ InLoop(p)
    /\ ~Existing(Current(p).message_id)
    /\ InsertConflict(p, Current(p).message_id)
    /\ raised' = [raised EXCEPT ![p] = @ \cup {idx[p]}]
    /\ idx' = [idx EXCEPT ![p] = @ + 1]
    /\ UNCHANGED <<unseen, inbox, customers, products, quotes, responses, sent,
                   pc, batch, pend, failed, last, now, faults>>

\* lines 90-100
IsReplyToUs(in_reply_to, rows) ==
    in_reply_to # 0 /\ \E r \in rows : r.message_id = in_reply_to

\* lines 103-117: the EmailInbox row of a fetched message
NewRow(email_data) ==
    [message_id |-> email_data.message_id,
     src |-> email_data.raw_message_id,
     business_id |-> BUSINESS_ID,
     from_email |-> email_data.from_email,
     in_reply_to |-> email_data.in_reply_to,
     thread_id |-> email_data.thread_id,
     is_reply_to_us |-> IsReplyToUs(email_data.in_reply_to, responses),
     processed |-> FALSE,
     processed_at |-> 0]

\* a poller that gives the message up when the STORE fails
PollIngestOrAbort(p) ==
    /\ InLoop(p)
    /\ ~Existing(Current(p).message_id)
    /\ ~InsertConflict(p, Current(p).message_id)
    /\ \E marked \in Outcomes :
        /\ unseen' = IF marked THEN unseen \ {Current(p).raw_message_id}
                      ELSE unseen
        /\ Fault(marked)
        /\ pend' = [pend EXCEPT ![p] =
                        IF marked THEN {NewRow(Current(p))} ELSE {}]
        /\ pc' = [pc EXCEPT ![p] = IF marked THEN "orch" ELSE "loop"]
        /\ idx' = [idx EXCEPT ![p] = IF marked THEN @ ELSE @ + 1]
        /\ raised' = [raised EXCEPT ![p] =
                        IF marked THEN @ ELSE @ \cup {idx[p]}]
    /\ UNCHANGED <<inbox, customers, products, quotes, responses, sent,
                   batch, failed, last, now>>

\* lines 77-126: add the row, flush, mark the message read (best effort: a
\* failing STORE is logged and the message stays UNSEEN)
PollIngest(p) ==
    /\ InLoop(p)
    /\ ~Existing(Current(p).message_id)
    /\ ~InsertConflict(p, Current(p).message_id)
    /\ pend' = [pend EXCEPT ![p] = {NewRow(Current(p))}]
    /\ \E marked \in Outcomes :
        /\ unseen' = IF marked THEN unseen \ {Current(p).raw_message_id}
                      ELSE unseen
        /\ Fault(marked)
    /\ pc' = [pc EXCEPT ![p] = "orch"]
    /\ UNCHANGED <<inbox, customers, products, quotes, responses, sent,
                   batch, idx, raised, failed, last, now>>

\* lines 137-150: the batch is done; commit, log out
PollEnd(p) ==
    /\ pc[p] = "loop"
    /\ idx[p] > Len(batch[p])
    /\ pc' = [pc EXCEPT ![p] = "idle"]
    /\ batch' = [batch EXCEPT ![p] = <<>>]
    /\ idx' = [idx EXCEPT ![p] = 1]
    /\ raised' = [raised EXCEPT ![p] = {}]
    /\ UNCHANGED <<unseen, inbox, customers, products, quotes, responses, sent,
                   pend, failed, last, now, faults>>


(***************************************************************************)
(* process_email_and_generate_quote (src/app/services/quote_service.py)    *)
(* with create_quote and the senders of email_service.py.  One action per  *)
(* way through the function; everything a run adds to the session is       *)
(* committed by the run, or rolled back by the poller when the run raises. *)
(* The commits inside a run (create_quote line 142, send_quote_email lines *)
(* 184 and 200) and its last commit (line 348) are one step: nothing       *)
(* between them raises, and a concurrent poller that sees the row after    *)
(* the first of them skips it as it does after the last.                   *)
(***************************************************************************)
TheRow(p) == CHOOSE r \in pend[p] : TRUE

\* lines 165-176: an EmailResponse of the same thread, or one that replies to
\* the same message (a comparison with None reads IS NULL)
ExistingReply(email, rows) ==
    /\ email.thread_id # 0 \/ email.in_reply_to # 0
    /\ LET thread_identifier == IF email.thread_id # 0 THEN email.thread_id
                                ELSE email.in_reply_to
       IN \E r \in rows :
            \/ r.thread_id = thread_identifier
            \/ r.in_reply_to = email.in_reply_to

\* line 184
IsDuplicate(intent) ==
    intent.intent = "duplicate" /\ intent.confidence > DUPLICATE_CONFIDENCE_TENTHS

\* lines 176-184: the run stops at the duplicate-thread check
Suppressed(email, intent) ==
    ExistingReply(email, responses) /\ IsDuplicate(intent)

\* the classifier is asked at line 178 only when the thread has a reply
IntentsFor(email) ==
    IF ExistingReply(email, responses) THEN IntentResults
    ELSE {[intent |-> "", confidence |-> 0]}

\* the extraction's answers for the text of a stored message
AnswersFor(email) == Mail[email.src].answers

HasCustomer(email) ==
    \E c \in customers :
        c.email = email.from_email /\ c.business_id = email.business_id

\* lines 234-250: find or create the customer (last_quote_date: 0 is None)
WithCustomer(email) ==
    IF HasCustomer(email) THEN customers
    ELSE customers \cup {[business_id |-> email.business_id,
                          email |-> email.from_email,
                          last_quote_date |-> 0]}

\* a message handed to the SMTP server
Sent(kind, email) ==
    [kind |-> kind, to_email |-> email.from_email,
     in_reply_to |-> email.message_id, message_id |-> NewMsgId]

\* a run that attributes the row to another tenant when it commits
ProcessedReattributed(email) ==
    [email EXCEPT !.processed = TRUE, !.processed_at = now,
                  !.business_id = @ + 1]

\* the row once the run has marked it processed and committed
Processed(email) ==
    [email EXCEPT !.processed = TRUE, !.processed_at = now]

\* scheduler_service.py 130-135: back in the loop, at the next message
NextMessage(p) ==
    /\ pend' = [pend EXCEPT ![p] = {}]
    /\ pc' = [pc EXCEPT ![p] = "loop"]
    /\ idx' = [idx EXCEPT ![p] = @ + 1]

RunRecord(email, intent, x, extracted, path, send_called) ==
    [message_id |-> email.message_id,
     existing_reply |-> ExistingReply(email, responses),
     intent |-> intent.intent, confidence |-> intent.confidence,
     extracted |-> extracted,
     has_complete_info |-> extracted /\ x.has_complete_info,
     missing_fields |-> IF extracted THEN x.missing_fields ELSE {},
     length_inches |-> IF extracted THEN x.length_inches ELSE NULL_DIM,
     width_inches |-> IF extracted THEN x.width_inches ELSE NULL_DIM,
     product |-> "", path |-> path, send_called |-> send_called]

AnyExtraction == Extraction("", NULL_DIM, NULL_DIM, FALSE, {})

\* lines 176-220: a duplicate in an answered thread is acknowledged
OrchAcknowledge(p) ==
    /\ pc[p] = "orch"
    /\ \E intent \in IntentsFor(TheRow(p)), delivered \in Outcomes :
        LET email == TheRow(p) IN
        /\ Suppressed(email, intent)
        /\ HasCustomer(email) \/ delivered
        /\ sent' = IF HasCustomer(email) /\ delivered
                   THEN sent \cup {Sent("ack", email)} ELSE sent
        /\ Fault(delivered)
        /\ inbox' = inbox \cup {Processed(email)}
        /\ last' = RunRecord(email, intent, AnyExtraction, FALSE, "ack",
                             HasCustomer(email))
    /\ NextMessage(p)
    /\ UNCHANGED <<unseen, customers, products, quotes, responses, batch,
                   raised, failed, now>>

\* lines 324-348: the extraction is incomplete, the sender is asked for more
OrchRequestInfo(p) ==
    /\ pc[p] = "orch"
    /\ \E intent \in IntentsFor(TheRow(p)), x \in AnswersFor(TheRow(p)),
          delivered \in Outcomes :
        LET email == TheRow(p) IN
        /\ ~Suppressed(email, intent)
        /\ ~x.has_complete_info
        /\ Fault(delivered)
        /\ customers' = WithCustomer(email)
        /\ sent' = IF delivered THEN sent \cup {Sent("info", email)} ELSE sent
        /\ inbox' = inbox \cup {Processed(email)}
        /\ last' = RunRecord(email, intent, x, TRUE, "info", TRUE)
    /\ NextMessage(p)
    /\ UNCHANGED <<unseen, products, quotes, responses, batch, raised, failed,
                   now>>


\* lines 268-273: the product created when no product matches
DefaultProduct(product_name) ==
    [name |-> IF product_name # "" THEN product_name ELSE "Custom Product",
     price_per_sq_in |-> 500, pricing_formula |-> <<>>,
     min_size_sq_in |-> DEFAULT_MIN_SIZE_SQ_IN,
     max_size_sq_in |-> DEFAULT_MAX_SIZE_SQ_IN]

\* lines 254-275: the product by name, else "Custom Product", else a new one
ResolveProduct(product_name) ==
    IF product_name # "" /\ \E q \in products : q.name = product_name
    THEN CHOOSE q \in products : q.name = product_name
    ELSE IF \E q \in products : q.name = "Custom Product"
    THEN CHOOSE q \in products : q.name = "Custom Product"
    ELSE DefaultProduct(product_name)

\* the primary key of the next Quote row
NextQuoteId == Cardinality(quotes) + 1

\* create_quote, lines 97-118: the Quote row
QuoteRow(email, product, length_inches, width_inches, pricing) ==
    [id |-> NextQuoteId,
     business_id |-> email.business_id,
     customer |-> email.from_email,
     product |-> product.name,
     length_inches |-> length_inches,
     width_inches |-> width_inches,
     area_sq_inches |-> pricing.area_sq_inches,
     unit_price |-> pricing.unit_price,
     total_price |-> pricing.total_price,
     for_message |-> email.message_id]

NewQuote(email, product, length_inches, width_inches) ==
    QuoteRow(email, product, length_inches, width_inches,
             calculate_price(product, length_inches, width_inches))

\* send_quote_email, lines 167-184 and 189-200: the EmailResponse row
SentResponse(email, quote_id) ==
    [quote_id |-> quote_id, status |-> "sent", message_id |-> NewMsgId,
     in_reply_to |-> email.message_id, thread_id |-> email.message_id,
     related_email |-> email.message_id]
FailedResponse(quote_id) ==
    [quote_id |-> quote_id, status |-> "failed", message_id |-> 0,
     in_reply_to |-> 0, thread_id |-> 0, related_email |-> 0]

\* calculate_price multiplies the dimensions: None * None raises TypeError
PricingRaises(x) == x.length_inches = NULL_DIM \/ x.width_inches = NULL_DIM

\* lines 253-322, 348: the extraction is complete, a quote is made and sent;
\* send_quote_email (email_service.py 110-201) returns False without a row
\* when it gets no access token, and records a failed row when the SMTP
\* exchange raises
OrchQuote(p) ==
    /\ pc[p] = "orch"
    /\ \E intent \in IntentsFor(TheRow(p)), x \in AnswersFor(TheRow(p)),
          delivered \in Outcomes, access_token \in BOOLEAN :
        LET email == TheRow(p)
            product == ResolveProduct(x.product_name)
        IN
        /\ ~Suppressed(email, intent)
        /\ x.has_complete_info
        /\ ~PricingRaises(x)
        /\ delivered => access_token
        /\ Fault(delivered)
        /\ customers' =
                {IF c.email = email.from_email
                        /\ c.business_id = email.business_id
                 THEN [c EXCEPT !.last_quote_date = now] ELSE c :
                 c \in WithCustomer(email)}
        /\ products' = products \cup {product}
        /\ quotes' = quotes \cup
                {NewQuote(email, product, x.length_inches, x.width_inches)}
        /\ sent' = IF delivered THEN sent \cup {Sent("quote", email)} ELSE sent
        /\ responses' = responses \cup
                IF delivered THEN {SentResponse(email, NextQuoteId)}
                ELSE IF access_token THEN {FailedResponse(NextQuoteId)}
                ELSE {}
        /\ inbox' = inbox \cup {Processed(email)}
        /\ last' = [RunRecord(email, intent, x, TRUE, "quote", TRUE)
                        EXCEPT !.product = product.name]
    /\ NextMessage(p)
    /\ UNCHANGED <<unseen, batch, raised, failed, now>>

\* a poller without the try/except around each message: a run that raises
\* ends the batch
OrchRaiseAborts(p) ==
    /\ pc[p] = "orch"
    /\ \E intent \in IntentsFor(TheRow(p)), x \in AnswersFor(TheRow(p)) :
        LET email == TheRow(p) IN
        /\ ~Suppressed(email, intent)
        /\ x.has_complete_info
        /\ PricingRaises(x) \/ FALSE \in Outcomes
        /\ Fault(PricingRaises(x))
        /\ failed' = failed \cup {email.src}
        /\ last' = RunRecord(email, intent, x, TRUE, "raised", FALSE)
    /\ raised' = [raised EXCEPT ![p] = @ \cup {idx[p]}]
    /\ pend' = [pend EXCEPT ![p] = {}]
    /\ pc' = [pc EXCEPT ![p] = "loop"]
    /\ idx' = [idx EXCEPT ![p] = Len(batch[p]) + 1]
    /\ UNCHANGED <<unseen, inbox, customers, products, quotes, responses, sent,
                   batch, now>>

\* scheduler_service.py 132-135: the run raised before its first commit
\* (the pricing on a null dimension, or the PDF renderer); the session is
\* rolled back and the poller continues with the next message
OrchRaise(p) ==
    /\ pc[p] = "orch"
    /\ \E intent \in IntentsFor(TheRow(p)), x \in AnswersFor(TheRow(p)) :
        LET email == TheRow(p) IN
        /\ ~Suppressed(email, intent)
        /\ x.has_complete_info
        /\ PricingRaises(x) \/ FALSE \in Outcomes
        /\ Fault(PricingRaises(x))
        /\ failed' = failed \cup {email.src}
        /\ last' = RunRecord(email, intent, x, TRUE, "raised", FALSE)
    /\ raised' = [raised EXCEPT ![p] = @ \cup {idx[p]}]
    /\ NextMessage(p)
    /\ UNCHANGED <<unseen, inbox, customers, products, quotes, responses, sent,
                   batch, now>>

\* a run that goes on although the row is processed: the reply is sent again
OrchRepeats(email) ==
    /\ email \in inbox
    /\ sent' = sent \cup {[Sent("quote", email) EXCEPT !.message_id = 999]}
    /\ now < MaxPolls
    /\ now' = now + 1
    /\ last' = [NoRun EXCEPT !.message_id = email.message_id,
                             !.path = "returned"]
    /\ UNCHANGED <<unseen, inbox, customers, products, quotes, responses,
                   pc, batch, idx, pend, raised, failed, faults>>

\* a run that goes on although the row is processed: the message is quoted
\* again
OrchRequotes(email) ==
    /\ email \in inbox
    /\ quotes' = quotes \cup
            {[q EXCEPT !.id = NextQuoteId] :
                q \in {x \in quotes : x.for_message = email.message_id}}
    /\ now < MaxPolls
    /\ now' = now + 1
    /\ last' = [NoRun EXCEPT !.message_id = email.message_id,
                             !.path = "returned"]
    /\ UNCHANGED <<unseen, inbox, customers, products, responses, sent,
                   pc, batch, idx, pend, raised, failed, faults>>

\* lines 150-155: process_email_and_generate_quote called with the id of a
\* row that is processed returns at once (the call is an event on the clock
\* of the polls)
OrchReturns(email) ==
    /\ email \in inbox
    /\ email.processed
    /\ now < MaxPolls
    /\ now' = now + 1
    /\ last' = [NoRun EXCEPT !.message_id = email.message_id,
                             !.path = "returned"]
    /\ UNCHANGED <<unseen, inbox, customers, products, quotes, responses, sent,
                   pc, batch, idx, pend, raised, failed, faults>>

(***************************************************************************)
(* The pricing functions applied to a catalogue of formulas and inputs.    *)
(***************************************************************************)
VARIABLES
    formula,          \* Product.pricing_formula, tokenized (<<>>: none)
    price_per_sq_in,  \* Product.price_per_sq_in
    length,           \* length_inches
    width,            \* width_inches
    applied,          \* the functions applied so far
    evalResult,       \* what _safe_eval returned or raised
    execResult,       \* what execute_formula returned
    validResult,      \* what validate_formula returned
    priceResult       \* what calculate_price returned

priceVars == <<formula, price_per_sq_in, length, width, applied,
               evalResult, execResult, validResult, priceResult>>


F_area == Name("area")
F_rate == Name("rate")
F_if == Name("if")
F_else == Name("else")
F_then == Name("then")

\* the two conditional forms _eval_conditional parses
Ternary(a, c, b) == a \o <<F_if>> \o c \o <<F_else>> \o b
Natural(c, a, b) == <<F_if>> \o c \o <<F_then>> \o a \o <<F_else>> \o b

\* area > 1000, area > 100
F_large == <<F_area, Op(">"), Num(1000)>>
F_medium == <<F_area, Op(">"), Num(100)>>
\* rate * 2 if area > 100 else rate * 3
F_tiers == Ternary(<<F_rate, Op("*"), Num(2)>>, F_medium,
                   <<F_rate, Op("*"), Num(3)>>)
\* if area > 100 then rate * 2 else rate * 3
F_tiersNatural == Natural(F_medium, <<F_rate, Op("*"), Num(2)>>,
                          <<F_rate, Op("*"), Num(3)>>)

Formulas ==
    {<<>>,
     \* rate if area > 1000 else rate * 2 if area > 100 else rate * 3
     Ternary(<<F_rate>>, F_large, F_tiers),
     \* rate if area > 1000 else if area > 100 then rate * 2 else rate * 3
     Ternary(<<F_rate>>, F_large, F_tiersNatural),
     \* if area > 1000 then rate else rate * 2 if area > 100 else rate * 3
     Natural(F_large, <<F_rate>>, F_tiers),
     \* if area > 100 then rate * 2 else rate * 3 if area > 1000 else rate
     Ternary(F_tiersNatural, F_large, <<F_rate>>),
     \* if area > 1000 then rate * 2 if area > 100 else rate * 3 else rate
     Natural(F_large, F_tiers, <<F_rate>>),
     <<F_area, Op("*"), F_rate>>,
     <<Name("base_price"), Op("+"), Op("("), F_area, Op("*"), F_rate, Op(")")>>,
     <<Name("length"), Op("*"), Name("width"), Op("*"), F_rate>>,
     \* area * rate * 2 if area > 1000 else area * rate
     <<F_area, Op("*"), F_rate, Op("*"), Num(2), F_if, F_area, Op(">"), Num(1000),
       F_else, F_area, Op("*"), F_rate>>,
     \* if area > 1000 then area * rate else area * rate * 2
     <<F_if, F_area, Op(">"), Num(1000), F_then, F_area, Op("*"), F_rate,
       F_else, F_area, Op("*"), F_rate, Op("*"), Num(2)>>,
     \* IF area > 1000 THEN area * rate ELSE area * rate * 3
     <<Name("IF"), F_area, Op(">"), Num(1000), Name("THEN"), F_area, Op("*"),
       F_rate, Name("ELSE"), F_area, Op("*"), F_rate, Op("*"), Num(3)>>,
     \* import os
     <<Name("import"), Name("os")>>,
     \* import
     <<Name("import")>>,
     \* __import__(1)
     <<Name("__import__"), Op("("), Num(1), Op(")")>>,
     \* EVAL(1)
     <<Name("EVAL"), Op("("), Num(1), Op(")")>>,
     \* area * rate if area > 100 else open(1)
     <<F_area, Op("*"), F_rate, F_if, F_area, Op(">"), Num(100), F_else,
       Name("open"), Op("("), Num(1), Op(")")>>,
     \* if area > 100 then exec(1) else area * rate
     <<F_if, F_area, Op(">"), Num(100), F_then, Name("exec"), Op("("), Num(1),
       Op(")"), F_else, F_area, Op("*"), F_rate>>,
     \* area * rate / 0
     <<F_area, Op("*"), F_rate, Op("/"), Num(0)>>,
     \* area * foo
     <<F_area, Op("*"), Name("foo")>>,
     \* area * * rate
     <<F_area, Op("*"), Op("*"), F_rate>>,
     \* if area > 1000 then rate else if area > 100 then rate * 2 else rate * 3
     <<F_if, F_area, Op(">"), Num(1000), F_then, F_rate, F_else, F_if, F_area,
       Op(">"), Num(100), F_then, F_rate, Op("*"), Num(2), F_else, F_rate,
       Op("*"), Num(3)>>,
     \* if area > 1000 then foo else area * rate
     <<F_if, F_area, Op(">"), Num(1000), F_then, Name("foo"), F_else, F_area,
       Op("*"), F_rate>>}

Prices == {0, 500}
Lengths == {5, 48, 200}
Widths == {5, 36, 100}

NoEval == WithEval(Val(0), {})
NoPrice == [area_sq_inches |-> 0, unit_price |-> 0, total_price |-> 0,
            min_price |-> 0]
NoValid == [valid |-> FALSE, error |-> ""]

\* the product the inputs describe
TheProduct ==
    [name |-> "product", price_per_sq_in |-> price_per_sq_in,
     pricing_formula |-> formula,
     min_size_sq_in |-> DEFAULT_MIN_SIZE_SQ_IN,
     max_size_sq_in |-> DEFAULT_MAX_SIZE_SQ_IN]

\* the arguments calculate_price passes to execute_formula (lines 41-51)
ArgBasePrice == IF price_per_sq_in > 0 THEN price_per_sq_in ELSE 0
ArgRate == IF price_per_sq_in > 0 THEN price_per_sq_in ELSE BASE_PRICE_PER_SQ_IN
ArgContext == FormulaContext(length * width, ArgBasePrice, ArgRate, length, width)

InitPriceInputs ==
    /\ formula \in Formulas
    /\ price_per_sq_in \in Prices
    /\ length \in Lengths
    /\ width \in Widths
    /\ applied = {}
    /\ evalResult = NoEval
    /\ execResult = 0
    /\ validResult = NoValid
    /\ priceResult = NoPrice

InitPriceIdle ==
    /\ formula = <<>>
    /\ price_per_sq_in = 0
    /\ length = 0
    /\ width = 0
    /\ applied = {}
    /\ evalResult = NoEval
    /\ execResult = 0
    /\ validResult = NoValid
    /\ priceResult = NoPrice

ApplySafeEval ==
    /\ "safe_eval" \notin applied
    /\ applied' = applied \cup {"safe_eval"}
    /\ evalResult' = safe_eval(formula, ArgContext)
    /\ UNCHANGED <<formula, price_per_sq_in, length, width, execResult,
                   validResult, priceResult>>

ApplyExecuteFormula ==
    /\ "execute_formula" \notin applied
    /\ applied' = applied \cup {"execute_formula"}
    /\ execResult' = execute_formula(formula, length * width, ArgBasePrice,
                                     ArgRate, length, width)
    /\ UNCHANGED <<formula, price_per_sq_in, length, width, evalResult,
                   validResult, priceResult>>

ApplyValidateFormula ==
    /\ "validate_formula" \notin applied
    /\ applied' = applied \cup {"validate_formula"}
    /\ validResult' = validate_formula(formula)
    /\ UNCHANGED <<formula, price_per_sq_in, length, width, evalResult,
                   execResult, priceResult>>

ApplyCalculatePrice ==
    /\ "calculate_price" \notin applied
    /\ applied' = applied \cup {"calculate_price"}
    /\ priceResult' = calculate_price(TheProduct, length, width)
    /\ UNCHANGED <<formula, price_per_sq_in, length, width, evalResult,
                   execResult, validResult>>

(***************************************************************************)
(* Tenants, their credential bundles and the sweep                         *)
(* (src/app/services/oauth_service.py, src/app/routers/oauth.py,           *)
(* src/app/services/scheduler_service.py).  Times are minutes; None is 0.  *)
(* The sweep job runs on the scheduler's thread, one instance at a time;   *)
(* the HTTP handlers run one at a time on the event loop.                  *)
(***************************************************************************)
VARIABLES
    businesses,   \* the Business rows: active flag and credential bundle
    clock,        \* datetime.now()
    issued,       \* the access tokens the identity provider has issued
    task,         \* each poller's position in poll_all_businesses / poll_business_emails
    call,         \* each poller's latest call of get_valid_access_token
    disconnected, \* what revoke_token did in each tenant's disconnect
    runs          \* the scheduler firings and HTTP requests so far

tenantVars == <<businesses, clock, issued, task, call, disconnected, runs>>

Tenants == {1, 2}

\* no call of get_valid_access_token yet
NoCall ==
    [refresh_token_encrypted |-> 0, access_token_encrypted |-> 0,
     expires_at |-> 0, at |-> 0, exchange |-> "none", returned |-> 0]

\* a poller outside poll_all_businesses and poll_business_emails
IdleTask ==
    [pc |-> "idle", tenant |-> 0, business |-> [active |-> FALSE],
     queue |-> <<>>, listed |-> {}, polled |-> {}, troubled |-> {},
     effects |-> {}]

\* every tenant is active and went through oauth_callback at minute 1
InitTenants ==
    /\ businesses = [b \in Tenants |->
            [active |-> TRUE,
             oauth_refresh_token_encrypted |-> b,
             oauth_access_token_encrypted |-> b,
             oauth_token_expires_at |-> 1 + TokenLifetime,
             oauth_connected_at |-> 1,
             oauth_email |-> b]]
    /\ clock = 1
    /\ issued = Cardinality(Tenants)
    /\ task = [p \in Pollers |-> IdleTask]
    /\ call = [p \in Pollers |-> NoCall]
    /\ disconnected = [b \in Tenants |-> "never"]
    /\ runs = 0

\* time passes
Tick ==
    /\ clock < MaxClock
    /\ clock' = clock + REFRESH_MARGIN
    /\ UNCHANGED <<businesses, issued, task, call, disconnected, runs>>

\* delete_business: the soft delete (a handler on the event loop)
delete_business(b) ==
    /\ task["manual"].pc = "idle"
    /\ businesses[b].active
    /\ runs < MaxEvents
    /\ runs' = runs + 1
    /\ businesses' = [businesses EXCEPT ![b].active = FALSE]
    /\ UNCHANGED <<clock, issued, task, call, disconnected>>

\* disconnect_oauth clearing the bundle only after a successful revoke
DisconnectIfRevoked(b, revoke) ==
    /\ task["manual"].pc = "idle"
    /\ businesses[b].oauth_refresh_token_encrypted # 0
    /\ businesses' = IF revoke # "revoked" THEN businesses
                     ELSE [businesses EXCEPT
                            ![b].oauth_refresh_token_encrypted = 0,
                            ![b].oauth_access_token_encrypted = 0,
                            ![b].oauth_token_expires_at = 0,
                            ![b].oauth_connected_at = 0,
                            ![b].oauth_email = 0]
    /\ disconnected' = [disconnected EXCEPT ![b] = revoke]
    /\ runs < MaxEvents
    /\ runs' = runs + 1
    /\ UNCHANGED <<clock, issued, task, call>>

\* routers/oauth.py 58-136: the authorization callback.  When the exchange
\* of the code succeeds the whole bundle is stored in one commit (lines
\* 114-120): the encrypted token dictionary, never empty, the access token,
\* its expiry and the time of the connection; when it raises, nothing is.
\* The tenant has no disconnect since this connection.
oauth_callback(b, exchanged) ==
    /\ task["manual"].pc = "idle"
    /\ runs < MaxEvents
    /\ runs' = runs + 1
    /\ exchanged => issued < MaxTokens
    /\ issued' = IF exchanged THEN issued + 1 ELSE issued
    /\ businesses' = IF ~exchanged THEN businesses
                     ELSE [businesses EXCEPT
                            ![b].oauth_refresh_token_encrypted = issued + 1,
                            ![b].oauth_access_token_encrypted = issued + 1,
                            ![b].oauth_token_expires_at = clock + TokenLifetime,
                            ![b].oauth_connected_at = clock,
                            ![b].oauth_email = b]
    /\ disconnected' = IF ~exchanged THEN disconnected
                       ELSE [disconnected EXCEPT ![b] = "never"]
    /\ UNCHANGED <<clock, task, call>>

\* a disconnect that keeps the time of the connection
DisconnectKeepsTimestamp(b, revoke) ==
    /\ task["manual"].pc = "idle"
    /\ businesses[b].oauth_refresh_token_encrypted # 0
    /\ businesses' = [businesses EXCEPT
            ![b].oauth_refresh_token_encrypted = 0,
            ![b].oauth_access_token_encrypted = 0,
            ![b].oauth_token_expires_at = 0,
            ![b].oauth_email = 0]
    /\ disconnected' = [disconnected EXCEPT ![b] = revoke]
    /\ runs < MaxEvents
    /\ runs' = runs + 1
    /\ UNCHANGED <<clock, issued, task, call>>

\* disconnect_oauth, whatever revoke_token returned or raised
disconnect_oauth(b, revoke) ==
    /\ task["manual"].pc = "idle"
    /\ businesses[b].oauth_refresh_token_encrypted # 0
    /\ businesses' = [businesses EXCEPT
            ![b].oauth_refresh_token_encrypted = 0,
            ![b].oauth_access_token_encrypted = 0,
            ![b].oauth_token_expires_at = 0,
            ![b].oauth_connected_at = 0,
            ![b].oauth_email = 0]
    /\ disconnected' = [disconnected EXCEPT ![b] = revoke]
    /\ runs < MaxEvents
    /\ runs' = runs + 1
    /\ UNCHANGED <<clock, issued, task, call>>

\* the validity check without the five-minute buffer
CachedNotExpired(access_token_encrypted, expires_at) ==
    /\ access_token_encrypted # 0
    /\ expires_at # 0
    /\ clock < expires_at

\* get_valid_access_token, lines 200-204: the cached token is still valid
CachedIsValid(access_token_encrypted, expires_at) ==
    /\ access_token_encrypted # 0
    /\ expires_at # 0
    /\ clock < expires_at - REFRESH_MARGIN

\* get_valid_access_token up to the refresh exchange: the cached token, or
\* refresh_access_token up to credentials.refresh (no token data: None)
TokenCall(business) ==
    [refresh_token_encrypted |-> business.oauth_refresh_token_encrypted,
     access_token_encrypted |-> business.oauth_access_token_encrypted,
     expires_at |-> business.oauth_token_expires_at,
     at |-> clock,
     exchange |->
        IF CachedIsValid(business.oauth_access_token_encrypted,
                         business.oauth_token_expires_at) THEN "none"
        ELSE IF business.oauth_refresh_token_encrypted = 0 THEN "no_token_data"
        ELSE "running",
     returned |->
        IF CachedIsValid(business.oauth_access_token_encrypted,
                         business.oauth_token_expires_at)
        THEN business.oauth_access_token_encrypted ELSE 0]

\* poll_business_emails without the checks of lines 27-34
PollAnyway(business) == TRUE

\* poll_business_emails, lines 27-34: the tenant is polled
ShouldPoll(business) ==
    business.active /\ business.oauth_refresh_token_encrypted # 0

\* a sweep that stops at the first tenant in trouble
ReturnedAborting(t, trouble) ==
    [t EXCEPT !.pc = IF t.queue = <<>> \/ trouble THEN "idle" ELSE "sweep",
              !.troubled = IF trouble THEN t.troubled \cup {t.tenant}
                           ELSE t.troubled]

\* poll_business_emails returns, to poll_all_businesses (lines 162-167) or to
\* manual_poll_emails; trouble: it did not get through the mailbox
Returned(t, trouble) ==
    [t EXCEPT !.pc = IF t.queue = <<>> THEN "idle" ELSE "sweep",
              !.troubled = IF trouble THEN t.troubled \cup {t.tenant}
                           ELSE t.troubled]

\* poll_all_businesses, lines 157-160: the active tenants, in id order
SweepStart ==
    /\ task["job"].pc = "idle"
    /\ runs < MaxEvents
    /\ runs' = runs + 1
    /\ \E b \in Tenants : businesses[b].active
    /\ task' = [task EXCEPT !["job"] =
            [IdleTask EXCEPT
                !.pc = "sweep",
                !.queue = SeqOfSet({b \in Tenants : businesses[b].active}),
                !.listed = {b \in Tenants : businesses[b].active}]]
    /\ UNCHANGED <<businesses, clock, issued, call, disconnected>>

\* the poller's task after get_valid_access_token was called by connect or
\* by send and returned c: the exchange is awaited, or the caller goes on
Awaiting(t, c, site) ==
    IF c.exchange = "running" THEN [t EXCEPT !.pc = "refresh_" \o site]
    ELSE IF site = "send"
    THEN [t EXCEPT !.pc = "mailbox",
                   !.effects = IF c.returned # 0 THEN @ \cup {"email"} ELSE @]
    ELSE IF c.returned # 0 THEN [t EXCEPT !.pc = "imap"]
    ELSE Returned(t, TRUE)

\* poll_business_emails(b), lines 25-39, called by the sweep for the head of
\* its list or by manual_poll_emails for a tenant with a refresh token, and
\* connect_to_business_email, lines 31-44
PollBegins(p, b) ==
    /\ \/ /\ p = "job"
          /\ task[p].pc = "sweep"
          /\ b = Head(task[p].queue)
       \/ /\ p = "manual"
          /\ task[p].pc = "idle"
          /\ businesses[b].oauth_refresh_token_encrypted # 0
          /\ runs < MaxEvents
    /\ runs' = IF p = "manual" THEN runs + 1 ELSE runs
    /\ LET base == IF p = "job" THEN task[p] ELSE IdleTask
           loaded == [base EXCEPT !.tenant = b,
                                  !.business = businesses[b],
                                  !.queue = IF @ = <<>> THEN @ ELSE Tail(@),
                                  !.polled = @ \cup {b},
                                  !.effects = {}]
       IN IF ShouldPoll(businesses[b])
          THEN /\ call' = [call EXCEPT ![p] = TokenCall(businesses[b])]
               /\ task' = [task EXCEPT ![p] =
                        Awaiting(loaded, TokenCall(businesses[b]), "connect")]
          ELSE /\ call' = call
               /\ task' = [task EXCEPT ![p] = Returned(loaded, FALSE)]
    /\ UNCHANGED <<businesses, clock, issued, disconnected>>

\* refresh_access_token, lines 171-177: the provider issues a new token
RefreshSucceeds(p, site) ==
    /\ task[p].pc = "refresh_" \o site
    /\ issued < MaxTokens
    /\ issued' = issued + 1
    /\ call' = [call EXCEPT ![p].exchange = "refreshed",
                            ![p].returned = issued + 1]
    /\ task' = [task EXCEPT ![p] =
            Awaiting([task[p] EXCEPT !.effects = @ \cup {"refresh"}],
                     [call[p] EXCEPT !.exchange = "refreshed",
                                     !.returned = issued + 1], site)]
    /\ UNCHANGED <<businesses, clock, disconnected, runs>>

\* refresh_access_token, lines 179-181: credentials.refresh raised, the
\* refresh token was rejected or the network failed; lines 210-213: None
RefreshFails(p, site, kind) ==
    /\ task[p].pc = "refresh_" \o site
    /\ call' = [call EXCEPT ![p].exchange = kind, ![p].returned = 0]
    /\ task' = [task EXCEPT ![p] =
            Awaiting([task[p] EXCEPT !.effects = @ \cup {"refresh"}],
                     [call[p] EXCEPT !.exchange = kind, !.returned = 0], site)]
    /\ UNCHANGED <<businesses, clock, issued, disconnected, runs>>

\* connect_to_business_email, lines 50-84: the mailbox connection
ImapConnect(p, ok) ==
    /\ task[p].pc = "imap"
    /\ task' = [task EXCEPT ![p] =
            IF ok THEN [task[p] EXCEPT !.pc = "mailbox",
                                       !.effects = @ \cup {"connect"}]
            ELSE Returned([task[p] EXCEPT !.effects = @ \cup {"connect"}], TRUE)]
    /\ UNCHANGED <<businesses, clock, issued, call, disconnected, runs>>

\* lines 66-130: a message is stored and answered; send_email asks for a
\* token with the tenant's bundle as the session reloads it
MailboxReply(p) ==
    /\ task[p].pc = "mailbox"
    /\ "row" \notin task[p].effects
    /\ call' = [call EXCEPT ![p] = TokenCall(businesses[task[p].tenant])]
    /\ task' = [task EXCEPT ![p] =
            Awaiting([task[p] EXCEPT !.effects = @ \cup {"row"}],
                     TokenCall(businesses[task[p].tenant]), "send")]
    /\ UNCHANGED <<businesses, clock, issued, disconnected, runs>>

\* lines 137-150: the poll ends, with the commit or in the outer handler
PollReturns(p, trouble) ==
    /\ task[p].pc = "mailbox"
    /\ task' = [task EXCEPT ![p] = Returned(task[p], trouble)]
    /\ UNCHANGED <<businesses, clock, issued, call, disconnected, runs>>

(***************************************************************************)
(* The functions of the mail path applied to catalogues of inputs          *)
(* (src/app/services/quote_service.py, src/app/services/imap_service.py).  *)
(* An address is the sequence of its parts, <<>> is no address; letters    *)
(* are lower case throughout, so that lower() and ilike compare parts.     *)
(***************************************************************************)
VARIABLES
    args,     \* the function applied and its arguments
    result    \* what it returned or raised

mailVars == <<args, result>>

\* no function applied yet
NoResult == [raised |-> "pending"]

\* quote_service.py 33-35: strip().lower() and the angle brackets removed
NormalizedAddress(to_email) ==
    IF Len(to_email) >= 2 /\ Head(to_email) = "<"
            /\ to_email[Len(to_email)] = ">"
    THEN SubSeq(to_email, 2, Len(to_email) - 1)
    ELSE to_email

\* identify_business_from_email: without a recipient the first active tenant
\* (lines 25-30); the exact match on Business.email (lines 38-43); then the
\* query on Business.imap_email (lines 46-48), a column the Business model
\* does not have, so that building the filter raises AttributeError and the
\* alias and default steps of lines 54-65 are never reached.  Query.first()
\* takes the rows in primary-key order.
identify_business_from_email(to_email, rows) ==
    LET first(bs) ==
            IF bs = {} THEN 0 ELSE CHOOSE b \in bs : \A c \in bs : b <= c
    IN
    IF to_email = <<>>
    THEN [business |-> first({b \in DOMAIN rows : rows[b].active}),
          raised |-> IF \E b \in DOMAIN rows : rows[b].active THEN ""
                     ELSE "Exception"]
    ELSE IF \E b \in DOMAIN rows : rows[b].email = NormalizedAddress(to_email)
    THEN [business |-> first({b \in DOMAIN rows :
                            rows[b].email = NormalizedAddress(to_email)}),
          raised |-> ""]
    ELSE [business |-> 0, raised |-> "AttributeError"]

\* ai_service.detect_email_intent on a text (subject and body, a sequence of
\* characters), the row's is_reply_to_us flag and what the classifier does:
\* no API key (lines 108-116), the call or the parsing of its answer raises
\* (lines 170-175), or the classifier's own answer (line 168); confidence in
\* tenths
detect_email_intent(text, is_reply_to_us, classifier) ==
    LET lower == [i \in 1..Len(text) |->
                    CASE text[i] = "H" -> "h"
                      [] text[i] = "S" -> "s"
                      [] OTHER -> text[i]]
        has(w) == \E i \in 1..(Len(lower) - Len(w) + 1) :
                        SubSeq(lower, i, i + Len(w) - 1) = w
        keywords ==
            {<<"h", "e", "r", "e">>,
             <<"i", "n", "f", "o", "r", "m", "a", "t", "i", "o", "n">>,
             <<"d", "e", "t", "a", "i", "l", "s">>,
             <<"s", "i", "z", "e">>,
             <<"d", "i", "m", "e", "n", "s", "i", "o", "n">>}
    IN
    IF classifier.kind = "unavailable"
    THEN IF is_reply_to_us
         THEN IF \E w \in keywords : has(w)
              THEN [raised |-> "", intent |-> "follow_up_with_info",
                    confidence |-> 7]
              ELSE [raised |-> "", intent |-> "follow_up_question",
                    confidence |-> 6]
         ELSE [raised |-> "", intent |-> "new_request", confidence |-> 8]
    ELSE IF classifier.kind = "raises"
    THEN IF is_reply_to_us
         THEN [raised |-> "", intent |-> "follow_up_with_info",
               confidence |-> 6]
         ELSE [raised |-> "", intent |-> "new_request", confidence |-> 7]
    ELSE [raised |-> "", intent |-> classifier.intent,
          confidence |-> classifier.confidence]

\* The catalogue of inputs.
\*  - identify_business_from_email: seven To: addresses against a Business
\*    table of two tenants, each active or not;
\*  - thread_id: the In-Reply-To id (0: no header) and the ids listed in
\*    References;
\*  - is_reply_to_us: the In-Reply-To header of a fetched message and the
\*    EmailResponse rows on file when it is ingested: none, the failed row
\*    of quote 1, the row of the quote email <501> sent in answer to
\*    message 11;
\*  - existing_reply: an unprocessed row, by the headers it was ingested
\*    with, and the EmailResponse rows on file when the orchestrator runs;
\*  - fetch_unread_emails: an unread message at a poll: the instant the
\*    tenant connected, the offset of the server's local time from UTC, the
\*    instant in the message's Date header (0: no header, or one that does
\*    not parse) and the instant of the fetch; instants are hours UTC;
\*  - detect_email_intent: the texts "there", "Size", "thanks" and "", each
\*    with whether it contains an information keyword, the flag, and what
\*    the classifier does.
MailInputs ==
    LET recipients ==
            {<<>>, <<"info", "@", "acme">>, <<"<", "info", "@", "bolt", ">">>,
             <<"info", "@", "other">>, <<"jobs", "@", "other">>,
             <<"jobs", "@", "bolt">>, <<"info">>}
        directories ==
            {[b \in {1, 2} |->
                [email |-> IF b = 1 THEN <<"info", "@", "acme">> ELSE second,
                 active |-> b \in actives]] :
             second \in {<<"info", "@", "bolt">>, <<"jobs", "@", "bolt">>},
             actives \in SUBSET {1, 2}}
        tables ==
            {{}, {FailedResponse(1)}, {SentResponse([message_id |-> 11], 1)},
             {SentResponse([message_id |-> 11], 1), FailedResponse(2)}}
    IN
    {[fn |-> "identify_business_from_email", to_email |-> t, rows |-> d] :
        t \in recipients, d \in directories}
    \cup
    {[fn |-> "thread_id", in_reply_to |-> i, refs |-> r] :
        i \in {0, 11, 12},
        r \in {<<>>, <<11>>, <<12>>, <<11, 12>>, <<12, 11>>, <<13, 12, 11>>}}
    \cup
    {[fn |-> "is_reply_to_us", header |-> h, on_file |-> rows] :
        h \in {0, -11, -501, -502}, rows \in tables}
    \cup
    {[fn |-> "existing_reply",
      email |-> [in_reply_to |-> i, thread_id |-> ThreadId(i, r)],
      on_file |-> rows] :
        i \in {0, 11, 12}, r \in {<<>>, <<11>>, <<12>>}, rows \in tables}
    \cup
    {[fn |-> "fetch_unread_emails", connected |-> 10, utc_offset |-> o,
      date |-> d, utcnow |-> n] :
        o \in {-5, 0, 5}, d \in {0, 3, 8, 10, 12, 20}, n \in {11, 20}}
    \cup
    {[fn |-> "detect_email_intent", text |-> t[1], informative |-> t[2],
      is_reply_to_us |-> f, classifier |-> c] :
        t \in {<<<<"t", "h", "e", "r", "e">>, TRUE>>,
               <<<<"S", "i", "z", "e">>, TRUE>>,
               <<<<"t", "h", "a", "n", "k", "s">>, FALSE>>,
               <<<<>>, FALSE>>},
        f \in BOOLEAN,
        c \in {[kind |-> "unavailable"], [kind |-> "raises"],
               [kind |-> "answers", intent |-> "duplicate",
                confidence |-> 8]}}

InitMailIdle == args = [fn |-> "none"] /\ result = NoResult

\* quote_service.py 23-67 on a recipient and a Business table
ApplyIdentifyBusiness ==
    /\ args.fn = "identify_business_from_email"
    /\ result = NoResult
    /\ result' = identify_business_from_email(args.to_email, args.rows)
    /\ UNCHANGED args

\* imap_service.py 188 and scheduler_service.py 90-100 on the In-Reply-To
\* header of one message
ApplyIsReplyToUs ==
    /\ args.fn = "is_reply_to_us"
    /\ result = NoResult
    /\ result' = [raised |-> "",
                  in_reply_to |-> StripBrackets(args.header),
                  is_reply_to_us |->
                        IsReplyToUs(StripBrackets(args.header), args.on_file)]
    /\ UNCHANGED args

\* ai_service.py 98-175 on one message
ApplyDetectIntent ==
    /\ args.fn = "detect_email_intent"
    /\ result = NoResult
    /\ result' = detect_email_intent(args.text, args.is_reply_to_us,
                                     args.classifier)
    /\ UNCHANGED args

\* quote_service.py 165-176: the duplicate-thread check of a run
ApplyExistingReply ==
    /\ args.fn = "existing_reply"
    /\ result = NoResult
    /\ result' = [raised |-> "",
                  existing_reply |-> ExistingReply(args.email, args.on_file)]
    /\ UNCHANGED args

\* the local since filter of fetch_unread_emails on one unread message.
\* since_date is Business.oauth_connected_at, which oauth_callback set to
\* datetime.now(), the naive local time of the server (routers/oauth.py 118,
\* scheduler_service.py 47), and which lines 218-219 read as UTC;
\* received_at is the Date header, or the time of the fetch when there is no
\* header or _parse_date fails (lines 203-204, 297-307); lines 221-223 drop
\* the message when received_at < since_date
ApplyFetchSince ==
    /\ args.fn = "fetch_unread_emails"
    /\ result = NoResult
    /\ result' =
            [raised |-> "",
             since_date |-> args.connected + args.utc_offset,
             received_at |-> IF args.date # 0 THEN args.date ELSE args.utcnow,
             returned |->
                ~((IF args.date # 0 THEN args.date ELSE args.utcnow)
                        < args.connected + args.utc_offset)]
    /\ UNCHANGED args

\* fetch_unread_emails, lines 187-200, on the headers of one message
ApplyThreadId ==
    /\ args.fn = "thread_id"
    /\ result = NoResult
    /\ result' = [raised |-> "",
                  thread_id |-> ThreadId(args.in_reply_to, args.refs)]
    /\ UNCHANGED args

(***************************************************************************)
(* Overlapping runs on a database of several tenants.  Every poll has its  *)
(* own session (scheduler_service.py 22); on PostgreSQL (database.py       *)
(* 19-27) a query of a session reads the committed rows, a flush inserts   *)
(* without committing, and the commit publishes the session's rows.  A run *)
(* of the orchestrator is two steps here: up to the flush of its Customer  *)
(* row (quote_service.py 147-250), and from there to its commit (253-348). *)
(***************************************************************************)
VARIABLES
    Business,   \* the Business rows, by id
    Customer,   \* committed Customer rows
    Product,    \* committed Product rows
    Quote,      \* committed Quote rows
    mailbox,    \* the unread messages of the polled tenant's mailbox
    smtp,       \* the replies handed to the SMTP server
    session     \* per poller: the run in progress

runVars == <<Business, Customer, Product, Quote, mailbox, smtp, session>>

\* The messages that arrive in the mailbox of tenant BUSINESS_ID: two of
\* carol and one of dave, addressed to the tenant, to the address of the
\* other tenant, and to an address of no tenant.
Arrivals ==
    {[message_id |-> 21, from_email |-> "carol",
      to_email |-> <<"info", "@", "acme">>, product_name |-> "felt rug"],
     [message_id |-> 22, from_email |-> "carol",
      to_email |-> <<"sales", "@", "acme">>, product_name |-> "mat"],
     [message_id |-> 23, from_email |-> "dave",
      to_email |-> <<"info", "@", "bolt">>, product_name |-> "felt rug"],
     [message_id |-> 24, from_email |-> "dave",
      to_email |-> <<"info", "@", "bolt">>, product_name |-> "mat"]}

\* no run in the session
NoSession ==
    [at |-> "idle", message_id |-> 0, business_id |-> 0, from_email |-> "",
     product_name |-> "", customer_id |-> 0, is_new_customer |-> FALSE]

\* two tenants, both active and connected; a catalogue for each
InitRuns ==
    /\ Business = [b \in Tenants |->
            [email |-> IF b = BUSINESS_ID THEN <<"info", "@", "acme">>
                       ELSE <<"info", "@", "bolt">>,
             active |-> TRUE,
             oauth_refresh_token_encrypted |-> b]]
    /\ Customer = {}
    /\ Product = {[id |-> 1, business_id |-> 2, name |-> "felt rug"],
                  [id |-> 2, business_id |-> 1, name |-> "felt rug"],
                  [id |-> 3, business_id |-> 2, name |-> "Custom Product"]}
    /\ Quote = {}
    /\ mailbox = Arrivals
    /\ smtp = {}
    /\ session = [p \in Pollers |-> NoSession]

\* Query.first(): the row with the lowest primary key
First(rows) == CHOOSE r \in rows : \A q \in rows : r.id <= q.id

\* routers/businesses.py 116-130: the soft delete of a tenant
SoftDelete(b) ==
    /\ Business[b].active
    /\ Business' = [Business EXCEPT ![b].active = FALSE]
    /\ UNCHANGED <<Customer, Product, Quote, mailbox, smtp, session>>

\* scheduler_service.py 77-88: the tenant of a fetched message is the one
\* its To: address identifies, else the polled one
BusinessIdForEmail(to_email) ==
    LET target == identify_business_from_email(to_email, Business) IN
    IF to_email # <<>> /\ target.raised = "" THEN target.business
    ELSE BUSINESS_ID

\* quote_service.py 235-238: the sender's Customer rows of the tenant
CustomersOf(email, business_id) ==
    {c \in Customer : c.email = email /\ c.business_id = business_id}

\* scheduler_service.py 27, 66-125 and quote_service.py 147-250: a poll of
\* the active tenant BUSINESS_ID takes a message, attributes it, stores and
\* marks it, and the run finds the sender's Customer row or flushes a new
\* one (its primary key is written as the id of the message)
RunBegins(p, m) ==
    /\ session[p].at = "idle"
    /\ m \in mailbox
    /\ Business[BUSINESS_ID].active
    /\ mailbox' = mailbox \ {m}
    /\ LET business_id == BusinessIdForEmail(m.to_email)
           found == CustomersOf(m.from_email, business_id)
       IN session' = [session EXCEPT ![p] =
            [at |-> "flushed", message_id |-> m.message_id,
             business_id |-> business_id, from_email |-> m.from_email,
             product_name |-> m.product_name,
             customer_id |-> IF found # {} THEN First(found).id
                             ELSE m.message_id,
             is_new_customer |-> found = {}]]
    /\ UNCHANGED <<Business, Customer, Product, Quote, smtp>>

\* a product lookup that leaves the tenant out of its filters
FindProductAnyTenant(business_id, product_name, new_id) ==
    LET named == {q \in Product : q.name = product_name}
        custom == {q \in Product : q.name = "Custom Product"}
    IN
    IF named # {} THEN First(named)
    ELSE IF custom # {} THEN First(custom)
    ELSE [id |-> new_id, business_id |-> business_id, name |-> product_name]

\* quote_service.py 254-275: the tenant's product of that name, else its
\* "Custom Product", else a new product of the tenant
FindProduct(business_id, product_name, new_id) ==
    LET named == {q \in Product :
                    q.name = product_name /\ q.business_id = business_id}
        custom == {q \in Product :
                    q.name = "Custom Product" /\ q.business_id = business_id}
    IN
    IF named # {} THEN First(named)
    ELSE IF custom # {} THEN First(custom)
    ELSE [id |-> new_id, business_id |-> business_id, name |-> product_name]

\* create_quote, lines 97-118
NewQuoteRow(s, product) ==
    [id |-> s.message_id, business_id |-> s.business_id,
     customer_id |-> s.customer_id, product_id |-> product.id,
     for_message |-> s.message_id]

\* quote_service.py 253-348: the quote path (the extraction is complete) or
\* the information request; the reply is sent with the credentials of the
\* message's tenant (email_service.py 52, 124) and the session is committed
RunCommits(p, complete, delivered) ==
    /\ session[p].at = "flushed"
    /\ LET s == session[p]
           product == FindProduct(s.business_id, s.product_name, s.message_id)
           business == s.business_id
       IN
       /\ delivered => Business[business].oauth_refresh_token_encrypted # 0
       /\ Customer' = IF s.is_new_customer
                      THEN Customer \cup {[id |-> s.customer_id,
                                           business_id |-> s.business_id,
                                           email |-> s.from_email]}
                      ELSE Customer
       /\ Product' = IF complete THEN Product \cup {product} ELSE Product
       /\ Quote' = IF complete THEN Quote \cup {NewQuoteRow(s, product)}
                   ELSE Quote
       /\ smtp' = IF delivered
                  THEN smtp \cup {[business_id |-> business,
                                   to_email |-> s.from_email,
                                   in_reply_to |-> s.message_id]}
                  ELSE smtp
    /\ session' = [session EXCEPT ![p] = NoSession]
    /\ UNCHANGED <<Business, mailbox>>

\* scheduler_service.py 132-135: the run raised before its first commit and
\* the poller rolled the session back
RunRaises(p) ==
    /\ session[p].at = "flushed"
    /\ session' = [session EXCEPT ![p] = NoSession]
    /\ UNCHANGED <<Business, Customer, Product, Quote, mailbox, smtp>>

(***************************************************************************)
(* Specifications.                                                         *)
(***************************************************************************)
\* The mail poller and the orchestrator.
vars == <<pollVars, priceVars, tenantVars, mailVars, runVars>>

Init == InitPoll /\ InitPriceIdle /\ InitTenants /\ InitMailIdle /\ InitRuns
Next ==
    \E p \in Pollers :
        \/ PollConnectFail(p) /\ UNCHANGED <<priceVars, tenantVars, mailVars, runVars>>
        \/ PollStart(p) /\ UNCHANGED <<priceVars, tenantVars, mailVars, runVars>>
        \/ PollSkipExisting(p) /\ UNCHANGED <<priceVars, tenantVars, mailVars, runVars>>
        \/ PollInsertRaises(p) /\ UNCHANGED <<priceVars, tenantVars, mailVars, runVars>>
        \/ PollIngest(p) /\ UNCHANGED <<priceVars, tenantVars, mailVars, runVars>>
        \/ OrchAcknowledge(p) /\ UNCHANGED <<priceVars, tenantVars, mailVars, runVars>>
        \/ OrchRequestInfo(p) /\ UNCHANGED <<priceVars, tenantVars, mailVars, runVars>>
        \/ OrchQuote(p) /\ UNCHANGED <<priceVars, tenantVars, mailVars, runVars>>
        \/ OrchRaise(p) /\ UNCHANGED <<priceVars, tenantVars, mailVars, runVars>>
        \/ PollEnd(p) /\ UNCHANGED <<priceVars, tenantVars, mailVars, runVars>>
        \/ \E email \in inbox :
            OrchReturns(email) /\ UNCHANGED <<priceVars, tenantVars, mailVars, runVars>>
Spec == Init /\ [][Next]_vars

\* The pricing functions on the catalogue of formulas.
InitP ==
    InitPoll /\ InitPriceInputs /\ InitTenants /\ InitMailIdle /\ InitRuns
NextP ==
    \/ ApplySafeEval /\ UNCHANGED <<pollVars, tenantVars, mailVars, runVars>>
    \/ ApplyExecuteFormula /\ UNCHANGED <<pollVars, tenantVars, mailVars, runVars>>
    \/ ApplyValidateFormula /\ UNCHANGED <<pollVars, tenantVars, mailVars, runVars>>
    \/ ApplyCalculatePrice /\ UNCHANGED <<pollVars, tenantVars, mailVars, runVars>>
SpecPricing == InitP /\ [][NextP]_vars

\* The tenants' credentials, the sweep and the manual poll.
InitT == InitPoll /\ InitPriceIdle /\ InitTenants /\ InitMailIdle /\ InitRuns
NextT ==
    \/ Tick /\ UNCHANGED <<pollVars, priceVars, mailVars, runVars>>
    \/ SweepStart /\ UNCHANGED <<pollVars, priceVars, mailVars, runVars>>
    \/ \E b \in Tenants :
            delete_business(b) /\ UNCHANGED <<pollVars, priceVars, mailVars, runVars>>
    \/ \E b \in Tenants : \E exchanged \in BOOLEAN :
            oauth_callback(b, exchanged)
                /\ UNCHANGED <<pollVars, priceVars, mailVars, runVars>>
    \/ \E b \in Tenants : \E revoke \in {"revoked", "false", "exception"} :
            disconnect_oauth(b, revoke) /\ UNCHANGED <<pollVars, priceVars, mailVars, runVars>>
    \/ \E p \in Pollers : \E b \in Tenants :
            PollBegins(p, b) /\ UNCHANGED <<pollVars, priceVars, mailVars, runVars>>
    \/ \E p \in Pollers : \E site \in {"connect", "send"} :
            RefreshSucceeds(p, site) /\ UNCHANGED <<pollVars, priceVars, mailVars, runVars>>
    \/ \E p \in Pollers : \E site \in {"connect", "send"} :
        \E kind \in {"rejected", "network"} :
            RefreshFails(p, site, kind) /\ UNCHANGED <<pollVars, priceVars, mailVars, runVars>>
    \/ \E p \in Pollers : \E ok \in BOOLEAN :
            ImapConnect(p, ok) /\ UNCHANGED <<pollVars, priceVars, mailVars, runVars>>
    \/ \E p \in Pollers :
            MailboxReply(p) /\ UNCHANGED <<pollVars, priceVars, mailVars, runVars>>
    \/ \E p \in Pollers : \E trouble \in BOOLEAN :
            PollReturns(p, trouble) /\ UNCHANGED <<pollVars, priceVars, mailVars, runVars>>
SpecTenants == InitT /\ [][NextT]_vars

\* The functions of the mail path on their catalogues of inputs.
InitM ==
    /\ InitPoll /\ InitPriceIdle /\ InitTenants
    /\ args \in MailInputs /\ result = NoResult
    /\ InitRuns
NextM ==
    \/ ApplyIdentifyBusiness /\ UNCHANGED <<pollVars, priceVars, tenantVars, runVars>>
    \/ ApplyThreadId /\ UNCHANGED <<pollVars, priceVars, tenantVars, runVars>>
    \/ ApplyIsReplyToUs /\ UNCHANGED <<pollVars, priceVars, tenantVars, runVars>>
    \/ ApplyExistingReply /\ UNCHANGED <<pollVars, priceVars, tenantVars, runVars>>
    \/ ApplyFetchSince /\ UNCHANGED <<pollVars, priceVars, tenantVars, runVars>>
    \/ ApplyDetectIntent /\ UNCHANGED <<pollVars, priceVars, tenantVars, runVars>>
SpecMail == InitM /\ [][NextM]_vars

\* Overlapping runs of the orchestrator for several tenants.
InitR == InitPoll /\ InitPriceIdle /\ InitTenants /\ InitMailIdle /\ InitRuns
NextR ==
    \/ \E b \in Tenants :
            SoftDelete(b)
                /\ UNCHANGED <<pollVars, priceVars, tenantVars, mailVars>>
    \/ \E p \in Pollers : \E m \in Arrivals :
            RunBegins(p, m)
                /\ UNCHANGED <<pollVars, priceVars, tenantVars, mailVars>>
    \/ \E p \in Pollers : \E complete \in BOOLEAN, delivered \in BOOLEAN :
            RunCommits(p, complete, delivered)
                /\ UNCHANGED <<pollVars, priceVars, tenantVars, mailVars>>
    \/ \E p \in Pollers :
            RunRaises(p)
                /\ UNCHANGED <<pollVars, priceVars, tenantVars, mailVars>>
SpecRuns == InitR /\ [][NextR]_vars

(***************************************************************************)
(* Properties.                                                             *)
(***************************************************************************)
RowsOf(message_id) == {r \in inbox : r.message_id = message_id}
RepliesTo(message_id) == {m \in sent : m.in_reply_to = message_id}
QuotesFor(message_id) == {q \in quotes : q.for_message = message_id}
Area == length * width
SecurityError == "ValueError: Dangerous operation detected in formula"

\* C1: every message id a poll has fetched and gone through has exactly one
\* EmailInbox row, and at most one reply was ever sent for it.
C1_ExactlyOneRow ==
    \A p \in Pollers : \A i \in 1..Len(batch[p]) :
        i < idx[p] =>
            /\ Cardinality(RowsOf(batch[p][i].message_id)) = 1
            /\ Cardinality(RepliesTo(batch[p][i].message_id)) <= 1

\* C2: a message whose orchestration raised is not stuck: it is processed, or
\* a poll can still pick it up (it is unread, or in a batch being worked on).
C2_RetryAvenue ==
    \A seq \in failed :
        \/ \E r \in inbox : r.src = seq /\ r.processed
        \/ seq \in unseen
        \/ \E p \in Pollers : \E i \in idx[p]..Len(batch[p]) :
                pc[p] # "idle" /\ batch[p][i].raw_message_id = seq

\* C3: a physical message without a Message-ID header has at most one
\* EmailInbox row and gets at most one reply, however often it is fetched.
C3_OneRowWithoutMessageId ==
    \A seq \in Seqs :
        Mail[seq].hdr = 0 =>
            /\ Cardinality({r \in inbox : r.src = seq}) <= 1
            /\ Cardinality({m \in sent : \E r \in inbox :
                    r.src = seq /\ m.in_reply_to = r.message_id}) <= 1

\* C4: when a poll is through its batch, every message of the batch either
\* raised or has its processed row on file, whatever raised before it; and no
\* step, a raising one included, removes a committed row or a sent reply.
C4_Isolation ==
    /\ [](\A p \in Pollers :
            (pc[p] = "loop" /\ idx[p] > Len(batch[p])) =>
                \A i \in 1..Len(batch[p]) :
                    \/ i \in raised[p]
                    \/ \E r \in RowsOf(batch[p][i].message_id) : r.processed)
    /\ [][/\ inbox \subseteq inbox'
          /\ quotes \subseteq quotes'
          /\ responses \subseteq responses'
          /\ sent \subseteq sent']_vars

\* a poll is through a batch of two whose first message raised and whose
\* second message was ingested, answered and committed by this poll
C4_Witness ==
    \E p \in Pollers :
        /\ pc[p] = "loop" /\ Len(batch[p]) = 2 /\ idx[p] = 3
        /\ raised[p] = {1}
        /\ last.message_id = batch[p][2].message_id
        /\ \E r \in RowsOf(batch[p][2].message_id) : r.processed
        /\ RepliesTo(batch[p][2].message_id) # {}

\* C5: a run on a message whose thread already has a reply, classified
\* duplicate with confidence > 0.7, calls the sender with an acknowledgment,
\* creates no quote and marks the message processed; any other
\* classification does not end the run at the duplicate check.
C5_ThreadSuppression ==
    last.existing_reply =>
        IF last.intent = "duplicate" /\ last.confidence > DUPLICATE_CONFIDENCE_TENTHS
        THEN /\ last.path = "ack"
             /\ last.send_called
             /\ QuotesFor(last.message_id) = {}
             /\ \E r \in RowsOf(last.message_id) : r.processed
        ELSE last.path # "ack"

\* C6: a run whose extraction has a nonempty missing_fields asks for the
\* missing information in reply to the message, marks it processed and
\* creates no quote.
C6_MissingInformation ==
    (last.extracted /\ last.missing_fields # {}) =>
        /\ last.path = "info"
        /\ last.send_called
        /\ \A m \in RepliesTo(last.message_id) : m.kind = "info"
        /\ QuotesFor(last.message_id) = {}
        /\ \E r \in RowsOf(last.message_id) : r.processed

\* C7: no quote row, and no quote email, exists for an area outside the
\* product's min_size_sq_in .. max_size_sq_in.
C7_DimensionBounds ==
    \A q \in quotes : \A product \in products :
        product.name = q.product =>
            validate_dimensions(product, q.length_inches, q.width_inches)

\* C8: when the total before the minimum is below MIN_ORDER_AMOUNT,
\* calculate_price returns total_price = MIN_ORDER_AMOUNT and
\* unit_price = total_price / area.
C8_MinimumOrderClamp ==
    ("calculate_price" \in applied
        /\ PriceBeforeMinimum(TheProduct, length, width).total_price
                < MIN_ORDER_AMOUNT) =>
        /\ priceResult.total_price = MIN_ORDER_AMOUNT
        /\ priceResult.unit_price =
                RoundDiv(priceResult.total_price, priceResult.area_sq_inches)

\* C9: for a formula whose evaluation fails, execute_formula returns
\* area * rate, and calculate_price goes on to price the quote from it.
C9_FormulaFallback ==
    (formula # <<>> /\ ~safe_eval(formula, ArgContext).ok) =>
        /\ "execute_formula" \in applied => execResult = Area * ArgRate
        /\ "calculate_price" \in applied =>
                /\ priceResult.total_price = RoundCents(ApplyMinimum(Area * ArgRate))
                /\ priceResult.area_sq_inches = Area

\* a formula that divides by zero was executed and priced: the total is the
\* fallback, above the minimum
C9_Witness ==
    /\ {"execute_formula", "calculate_price"} \subseteq applied
    /\ safe_eval(formula, ArgContext).err = "ZeroDivisionError"
    /\ execResult = Area * ArgRate
    /\ priceResult.total_price = Area * ArgRate
    /\ priceResult.total_price > MIN_ORDER_AMOUNT

\* the denylist as the specification words it: import, a double-underscore
\* name, exec(, eval(, open(
HasDenylistedToken(toks) ==
    \E i \in 1..Len(toks) :
        /\ toks[i].k = "name"
        /\ \/ Lower(toks[i].s) = "import"
           \/ Lower(toks[i].s) \in DunderNames
           \/ /\ Lower(toks[i].s) \in {"exec", "eval", "open"}
              /\ i < Len(toks) /\ IsOp(toks[i + 1], "(")

Conditional(f, c, a, b) == [f |-> f, c |-> c, a |-> a, b |-> b]
AreaRate == <<F_area, Op("*"), F_rate>>
Conditionals ==
    {Conditional(Ternary(AreaRate \o <<Op("*"), Num(2)>>, F_large, AreaRate),
                 F_large, AreaRate \o <<Op("*"), Num(2)>>, AreaRate),
     Conditional(Natural(F_large, AreaRate, AreaRate \o <<Op("*"), Num(2)>>),
                 F_large, AreaRate, AreaRate \o <<Op("*"), Num(2)>>),
     Conditional(Ternary(<<F_rate>>, F_large, F_tiers),
                 F_large, <<F_rate>>, F_tiers),
     Conditional(Ternary(<<F_rate>>, F_large, F_tiersNatural),
                 F_large, <<F_rate>>, F_tiersNatural),
     Conditional(Ternary(F_tiersNatural, F_large, <<F_rate>>),
                 F_large, F_tiersNatural, <<F_rate>>),
     Conditional(Natural(F_large, <<F_rate>>, F_tiers),
                 F_large, <<F_rate>>, F_tiers),
     Conditional(Natural(F_large, F_tiers, <<F_rate>>),
                 F_large, F_tiers, <<F_rate>>),
     Conditional(Natural(F_large, <<F_rate>>, F_tiersNatural),
                 F_large, <<F_rate>>, F_tiersNatural)}

\* the value of the branch the condition selects
SelectedBranch(cd) ==
    IF safe_eval(cd.c, ArgContext).v # 0 THEN safe_eval(cd.a, ArgContext)
                                         ELSE safe_eval(cd.b, ArgContext)

\* C11: a conditional formula of either form, a branch of which may itself
\* be a conditional of either form, evaluates to the value of A when COND
\* holds and to the value of B otherwise.
C11_ConditionalValue ==
    "safe_eval" \in applied =>
        \A cd \in Conditionals :
            formula = cd.f =>
                /\ evalResult.ok
                /\ evalResult.v = SelectedBranch(cd).v

\* a call of get_valid_access_token found a cached token and an expiry more
\* than five minutes away
WasValid(c) ==
    /\ c.access_token_encrypted # 0
    /\ c.expires_at # 0
    /\ c.at < c.expires_at - REFRESH_MARGIN
\* the call returned the token it found cached
ReturnedCached(c) ==
    c.access_token_encrypted # 0 /\ c.returned = c.access_token_encrypted
Bundle(p) == businesses[task[p].tenant]

C13_AtomicReplacement ==
    \A p \in Pollers :
        (call[p].exchange = "refreshed"
            /\ Bundle(p).oauth_refresh_token_encrypted
                    = call[p].refresh_token_encrypted) =>
            /\ Bundle(p).oauth_access_token_encrypted >= call[p].returned
            /\ Bundle(p).oauth_token_expires_at > call[p].expires_at

\* C14: a refresh that failed because the refresh token was rejected and a
\* refresh that failed because of the network give their callers different
\* results.
C14_RefreshErrorKinds ==
    \A p, q \in Pollers :
        (call[p].exchange = "rejected" /\ call[q].exchange = "network") =>
            call[p].returned # call[q].returned

Range(q) == {q[i] : i \in 1..Len(q)}

C18_NoSelfOverlap ==
    ~(\E p, q \in Pollers : p # q /\ pc[p] # "idle" /\ pc[q] # "idle")

\* C19: at most one refresh exchange of a tenant is in progress at any time.
C19_SerializedRefresh ==
    \A p, q \in Pollers :
        (/\ p # q
         /\ task[p].pc \in {"refresh_connect", "refresh_send"}
         /\ task[q].pc \in {"refresh_connect", "refresh_send"}) =>
            task[p].tenant # task[q].tenant


\* the orchestration of position i of p's batch has ended: it raised, or the
\* message has its row on file
Ended(p, i) ==
    i \in raised[p] \/ Existing(batch[p][i].message_id)

\* C20: the batch of a tick is in mailbox order and is gone through one
\* position at a time; an orchestration starts for the message at the
\* current position, when every earlier position has ended, and the position
\* moves on by one when the orchestration ends, completed or failed.
C20_BatchOrdering ==
    /\ [](\A p \in Pollers :
            /\ \A i, j \in 1..Len(batch[p]) :
                    i < j => batch[p][i].raw_message_id < batch[p][j].raw_message_id
            /\ pc[p] = "orch" =>
                    /\ idx[p] \in 1..Len(batch[p])
                    /\ \A r \in pend[p] :
                            r.message_id = batch[p][idx[p]].message_id
                    /\ pend[p] # {}
                    /\ \A i \in 1..(idx[p] - 1) : Ended(p, i))
    /\ [][\A p \in Pollers :
            /\ (pc[p] # "idle" /\ pc'[p] # "idle") =>
                    /\ batch'[p] = batch[p]
                    /\ idx'[p] \in {idx[p], idx[p] + 1}
            /\ (pc[p] = "loop" /\ pc'[p] = "orch") => idx'[p] = idx[p]
            /\ (pc[p] = "orch" /\ pc'[p] # "orch") =>
                    /\ pc'[p] = "loop"
                    /\ idx'[p] = idx[p] + 1
                    /\ last'.message_id = batch[p][idx[p]].message_id
                    /\ \/ idx[p] \in raised'[p]
                       \/ \E r \in inbox' :
                            r.message_id = batch[p][idx[p]].message_id]_vars

\* the second message of a batch of two is being orchestrated; the first
\* one was orchestrated by the same tick and has its processed row
C20_Witness ==
    \E p \in Pollers :
        /\ pc[p] = "orch" /\ Len(batch[p]) = 2 /\ idx[p] = 2
        /\ raised[p] = {}
        /\ last.message_id = batch[p][1].message_id
        /\ \E r \in RowsOf(batch[p][1].message_id) : r.processed

\* the part of an address before its first "@" (all of it without an "@")
LocalPart(t) ==
    IF \E i \in 1..Len(t) : t[i] = "@"
    THEN SubSeq(t, 1, (CHOOSE i \in 1..Len(t) :
                        t[i] = "@" /\ \A j \in 1..(i - 1) : t[j] # "@") - 1)
    ELSE t
ExactMatches(t, rows) == {b \in DOMAIN rows : rows[b].email = t}
AliasMatches(t, rows) ==
    {b \in DOMAIN rows : LocalPart(rows[b].email) = LocalPart(t)}
ActiveTenants(rows) == {b \in DOMAIN rows : rows[b].active}

\* C21: identify_business_from_email returns the tenant whose address
\* matches the recipient exactly; if none, a tenant whose address has the
\* recipient's local part; if none, an active tenant; and it raises only
\* when none of the three steps yields a tenant.
C21_ResolutionOrder ==
    (args.fn = "identify_business_from_email" /\ result # NoResult) =>
        LET t == NormalizedAddress(args.to_email) IN
        IF ExactMatches(t, args.rows) # {}
        THEN result.raised = "" /\ result.business \in ExactMatches(t, args.rows)
        ELSE IF t # <<>> /\ AliasMatches(t, args.rows) # {}
        THEN result.raised = "" /\ result.business \in AliasMatches(t, args.rows)
        ELSE IF ActiveTenants(args.rows) # {}
        THEN result.raised = "" /\ result.business \in ActiveTenants(args.rows)
        ELSE result.raised # ""

\* C22: a row with processed = true stays on file as it is, no unprocessed
\* row of its message id appears, and a call of the orchestrator on it sends
\* nothing, adds no Quote, Customer, Product or EmailResponse row and leaves
\* the inbox as it was.
C22_ProcessedTerminal ==
    [][/\ \A r \in inbox : r.processed =>
            /\ r \in inbox'
            /\ \A s \in inbox' \cup UNION {pend'[p] : p \in Pollers} :
                    s.message_id = r.message_id => s = r
       /\ (last' # last /\ last'.path = "returned") =>
            /\ \E r \in inbox : r.processed /\ r.message_id = last'.message_id
            /\ UNCHANGED <<inbox, sent, quotes, customers, products,
                           responses, pend>>]_vars

\* the orchestrator was called again on a message that has its quote and its
\* reply, and returned
C22_Witness ==
    /\ last.path = "returned"
    /\ \E r \in RowsOf(last.message_id) : r.processed
    /\ RepliesTo(last.message_id) # {}
    /\ QuotesFor(last.message_id) # {}

\* C23: whenever a run called a sender and the reply was not delivered, the
\* run recorded an EmailResponse row with status failed, whatever the cause
\* and whatever the kind of the reply.
C23_FailedSendsRecorded ==
    [][(last' # last /\ last'.send_called /\ sent' = sent) =>
            \E r \in responses' \ responses : r.status = "failed"]_vars

\* C24: every quote email that was sent has exactly one EmailResponse row
\* with its outgoing message id, status sent, and the thread id of the
\* inbound message it answers.
C24_OutboundRecord ==
    \A m \in sent : m.kind = "quote" =>
        /\ Cardinality({r \in responses : r.message_id = m.message_id}) = 1
        /\ \A r \in responses : r.message_id = m.message_id =>
                /\ r.status = "sent"
                /\ \E e \in RowsOf(m.in_reply_to) : r.thread_id = e.thread_id

\* dimensions that are there and whose area is inside the product's bounds
\* (every product of the catalogue has the default bounds)
Acceptable(length_inches, width_inches) ==
    /\ length_inches # NULL_DIM /\ width_inches # NULL_DIM
    /\ length_inches * width_inches >= DEFAULT_MIN_SIZE_SQ_IN
    /\ length_inches * width_inches <= DEFAULT_MAX_SIZE_SQ_IN

\* the run of poller p that ends in this step is on a message without reply
\* headers whose extraction is complete and acceptable
CompleteRequestEnds(p, email) ==
    /\ pc[p] = "orch" /\ pc'[p] # "orch"
    /\ email \in pend[p]
    /\ email.in_reply_to = 0 /\ email.thread_id = 0
    /\ last'.has_complete_info
    /\ Acceptable(last'.length_inches, last'.width_inches)

\* one new Quote row of area length x width, one reply, the row processed
\* with its timestamp, the customer's last_quote_date set
CompleteRequestDone(email) ==
    /\ Cardinality(quotes' \ quotes) = 1
    /\ \A q \in quotes' \ quotes :
            /\ q.for_message = email.message_id
            /\ q.length_inches = last'.length_inches
            /\ q.width_inches = last'.width_inches
            /\ q.area_sq_inches = q.length_inches * q.width_inches
    /\ Cardinality({m \in sent' : m.in_reply_to = email.message_id}) = 1
    /\ \E r \in inbox' :
            /\ r.message_id = email.message_id
            /\ r.processed /\ r.processed_at # 0
    /\ \E c \in customers' :
            /\ c.email = email.from_email
            /\ c.business_id = email.business_id
            /\ c.last_quote_date # 0

\* C25: every run on an unprocessed message without reply headers whose
\* extraction is complete and acceptable ends with one new Quote row
\* of area length x width, one reply, the row processed with a timestamp and
\* the customer's last-quote timestamp set.
C25_CompleteRequest ==
    [][\A p \in Pollers : \A email \in pend[p] :
            CompleteRequestEnds(p, email) => CompleteRequestDone(email)]_vars

\* C26: for every combination of the two headers the derived thread id is
\* the first id of References when References lists ids, else the
\* In-Reply-To id when there is one, else none.
C26_ThreadCorrelation ==
    (args.fn = "thread_id" /\ result # NoResult) =>
        /\ args.refs # <<>> => result.thread_id = Head(args.refs)
        /\ (args.refs = <<>> /\ args.in_reply_to # 0) =>
                result.thread_id = args.in_reply_to
        /\ (args.refs = <<>> /\ args.in_reply_to = 0) => result.thread_id = 0

\* both headers are there and name different ids: the first id of
\* References was taken
C26_Witness ==
    /\ args.fn = "thread_id" /\ result # NoResult
    /\ args.in_reply_to = 11 /\ args.refs = <<13, 12, 11>>
    /\ result.thread_id = 13

\* C27: the is_reply_to_us flag of an ingested message is true if and only
\* if the message has an In-Reply-To id and an EmailResponse row on file has
\* that id as its message id.
C27_ReplyToUs ==
    (args.fn = "is_reply_to_us" /\ result # NoResult) =>
        (result.is_reply_to_us <=>
            /\ args.header # 0
            /\ \E r \in args.on_file :
                    /\ r.message_id # 0
                    /\ StripBrackets(r.message_id) = StripBrackets(args.header))

\* C28: the duplicate-thread check of a run is true only if an EmailResponse
\* row on file carries the message's thread id or replies to the id the
\* message replies to; a failed row, which has neither, never makes it true.
C28_DuplicateCheck ==
    (args.fn = "existing_reply" /\ result # NoResult) =>
        (result.existing_reply =>
            \E r \in args.on_file :
                \/ args.email.thread_id # 0
                        /\ r.thread_id = args.email.thread_id
                \/ args.email.in_reply_to # 0
                        /\ r.in_reply_to = args.email.in_reply_to)

\* C29: with a since timestamp, fetch_unread_emails returns no message whose
\* received_at is earlier than since, so that no message received before the
\* tenant connected its credentials is ingested by a poll.
C29_LocalSinceFilter ==
    (args.fn = "fetch_unread_emails" /\ result # NoResult
            /\ result.returned) =>
        /\ result.received_at >= result.since_date
        /\ result.received_at >= args.connected

\* C30: when the STORE that marks a message read fails, the poller still
\* holds the flushed row of the message and goes on to its orchestration in
\* the same tick; the orchestration that follows runs on that message, and
\* unless it raises the row is on file, processed, when it ends.
C30_MarkReadBestEffort ==
    [][\A p \in Pollers :
        /\ (/\ pc[p] = "loop" /\ faults' # faults
            /\ pc'[p] # pc[p] \/ idx'[p] # idx[p]) =>
                /\ pc'[p] = "orch" /\ idx'[p] = idx[p] /\ batch'[p] = batch[p]
                /\ \E r \in pend'[p] : r.message_id = Current(p).message_id
        /\ (/\ pc[p] = "orch" /\ pc'[p] # "orch"
            /\ Current(p).raw_message_id \in unseen) =>
                /\ last'.message_id = Current(p).message_id
                /\ \/ idx[p] \in raised'[p]
                   \/ \E r \in inbox' :
                        r.message_id = Current(p).message_id /\ r.processed]_vars

\* a message is still unread on the server, its row is on file, processed,
\* and the poll that ingested it is still in the same batch
C30_Witness ==
    \E p \in Pollers : \E i \in 1..Len(batch[p]) :
        /\ pc[p] = "loop" /\ idx[p] = i + 1 /\ i \notin raised[p]
        /\ batch[p][i].raw_message_id \in unseen
        /\ faults = 1
        /\ last.message_id = batch[p][i].message_id
        /\ \E r \in RowsOf(batch[p][i].message_id) : r.processed
        /\ RepliesTo(batch[p][i].message_id) # {}

\* C31: when the classifier is unavailable or raises, detect_email_intent
\* returns follow_up_with_info for a reply to us whose text contains an
\* information keyword, follow_up_question for a reply to us without one,
\* new_request otherwise, and never duplicate.
C31_FallbackClassification ==
    (args.fn = "detect_email_intent" /\ result # NoResult
            /\ args.classifier.kind \in {"unavailable", "raises"}) =>
        /\ result.intent # "duplicate"
        /\ result.intent =
                IF args.is_reply_to_us /\ args.informative
                THEN "follow_up_with_info"
                ELSE IF args.is_reply_to_us THEN "follow_up_question"
                ELSE "new_request"

\* the EmailInbox rows of the sessions and of the store
AllRows == inbox \cup UNION {pend[p] : p \in Pollers}

\* C32: once a row exists, no step of a poller or of the orchestrator
\* changes its message id, tenant, sender, physical message or
\* thread-correlation fields; only processed and processed_at change.
C32_InboundImmutable ==
    [][\A r \in AllRows : \A s \in AllRows' :
            s.message_id = r.message_id =>
                [s EXCEPT !.processed = r.processed,
                          !.processed_at = r.processed_at] = r]_vars

\* a reply inside a thread was ingested and is on file, processed
C32_Witness ==
    \E r \in inbox :
        /\ r.processed /\ r.processed_at # 0
        /\ r.thread_id # 0 /\ r.in_reply_to # 0
        /\ last.message_id = r.message_id

\* C33: after any interleaving of runs there is at most one Customer row
\* for a tenant and a sender address.
C33_CustomerKey ==
    \A a \in Customer : \A b \in Customer :
        (a.business_id = b.business_id /\ a.email = b.email) => a = b

\* C37: every Quote of a run has the tenant of the message it answers, and
\* the Customer and the Product it references are rows of that tenant.
C37_TenantConsistency ==
    [][\A p \in Pollers :
         \A q \in Quote' \ Quote :
            q.for_message = session[p].message_id =>
                /\ q.business_id = session[p].business_id
                /\ \A c \in Customer' :
                        c.id = q.customer_id => c.business_id = q.business_id
                /\ \E c \in Customer' : c.id = q.customer_id
                /\ \A r \in Product' :
                        r.id = q.product_id => r.business_id = q.business_id
                /\ \E r \in Product' : r.id = q.product_id]_vars

\* quotes were made for both tenants, one of them for a product the run
\* created and one for a customer an earlier run created
C37_Witness ==
    /\ \E q \in Quote : q.business_id = 1 /\ q.product_id > 3
    /\ \E q \in Quote : q.business_id = 2 /\ q.customer_id # q.for_message

\* C38: no reply is sent as a tenant whose active flag is false.
C38_NoReplyAsInactive ==
    [][\A m \in smtp' \ smtp : Business[m.business_id].active]_vars

\* the EmailResponse rows written for a stored message: those that name it
\* and those of its quotes
ResponsesFor(message_id) ==
    {e \in responses :
        \/ e.related_email = message_id
        \/ \E q \in QuotesFor(message_id) : q.id = e.quote_id}

\* C34: over any sequence of polls and runs, a stored message has at most
\* one Quote row and at most one EmailResponse row.
C34_OneQuotePerMessage ==
    \A r \in inbox :
        /\ Cardinality(QuotesFor(r.message_id)) <= 1
        /\ Cardinality(ResponsesFor(r.message_id)) <= 1

\* a message has its quote and its reply on file, and the orchestrator was
\* called for it again
C34_Witness ==
    \E r \in inbox :
        /\ Cardinality(QuotesFor(r.message_id)) = 1
        /\ Cardinality(ResponsesFor(r.message_id)) = 1
        /\ last.message_id = r.message_id /\ last.path = "returned"

\* C35: a message the poller has marked read on the mail server has its
\* EmailInbox row, in the store or in the session that is processing it; no
\* rollback removes the row of a message that is marked read.
C35_MarkedReadStored ==
    \A seq \in Seqs \ unseen : \E r \in AllRows : r.src = seq

\* C36: a run that ends on the information-request or the quote path, with
\* the message marked processed, has sent a reply to that message.
C36_ProcessedImpliesReplied ==
    [][(last' # last /\ last'.path \in {"info", "quote"}) =>
            /\ \E r \in inbox' : r.message_id = last'.message_id /\ r.processed
            /\ \E m \in sent' : m.in_reply_to = last'.message_id]_vars

\* routers/oauth.py 150-153: the is_connected of get_oauth_status
IsConnected(business) ==
    business.oauth_refresh_token_encrypted # 0
        /\ business.oauth_connected_at # 0

\* C39: through the authorization callback and the disconnect, a tenant's
\* token bundle is stored exactly when the time of its connection is; the
\* status reports the tenant connected exactly when the poller does not
\* skip it for missing credentials.
C39_BundleConsistency ==
    \A b \in Tenants :
        /\ businesses[b].oauth_refresh_token_encrypted # 0
                <=> businesses[b].oauth_connected_at # 0
        /\ IsConnected(businesses[b])
                <=> businesses[b].oauth_refresh_token_encrypted # 0

\* one tenant was disconnected and the other one authorized again
C39_Witness ==
    \E b \in Tenants : \E c \in Tenants :
        /\ businesses[b].oauth_refresh_token_encrypted = 0
        /\ disconnected[b] # disconnected[c]
        /\ businesses[c].oauth_refresh_token_encrypted > Cardinality(Tenants)
        /\ businesses[c].oauth_connected_at # 0

=============================================================================
